---------------------------- MODULE Spec2Model ----------------------------
(***************************************************************************)
(* Simulation core of dear-engine (src/dear-engine/src/main.cpp): the      *)
(* fixed-timestep game_update, pause/resume and the input callbacks.       *)
(*                                                                         *)
(* Number representation (floats of the source become integers):          *)
(*   positions, box corners in world space : 1/100000 of a world unit      *)
(*   Transform.scale                       : 1/1000                        *)
(*   Aabb corners in local space           : 1/100                         *)
(*   velocity, acceleration                : 1/100000 unit per s, per s^2  *)
(*   time, durations, dt                   : milliseconds                  *)
(* so that scale * local corner is a world length and every product of    *)
(* the source with dt = 10 ms is exact.                                    *)
(***************************************************************************)
EXTENDS Integers, Sequences, FiniteSets, TLC

VARIABLES game, al_playing, glfw_keys, epochtime, last, n_ticks, n_events,
          loop, sprite, cache, geo

\* loop   : the locals of game_loop (used by LoopSpec)
\* sprite : a SpriteAnimation advanced on its own (used by AnimSpec)
\* cache  : the resource caches (used by CacheSpec)
\* geo    : boxes and a matrix given to collision and Aabb::transform
\*          (used by GeoSpec)
vars == <<game, al_playing, glfw_keys, epochtime, last, n_ticks, n_events,
          loop, sprite, cache, geo>>

(***************************************************************************)
(* Bounds of the exploration.                                              *)
(***************************************************************************)
MaxTicks == 3
MaxEvents == 3
MaxProjectiles == 4

(***************************************************************************)
(* Program constants.                                                      *)
(***************************************************************************)
kWidth == 1280
kHeight == 720
timestep == 10
kSentinel == 100000000
kEnemyHealth == 10
kFireDuration == 150

\* kAspectRatio = kWidth / kHeight, in 1/100000
kAspectRatio == (kWidth * 100000) \div kHeight

None == << >>
Some(x) == << x >>
Has(opt) == opt # << >>
Get(opt) == opt[1]

MinOf(a, b) == IF a < b THEN a ELSE b
MaxOf(a, b) == IF a > b THEN a ELSE b

(***************************************************************************)
(* Transform (components.hpp).  Every entity of the game has rotation 0,   *)
(* so matrix() = translate * scale and a point p maps to position +        *)
(* scale * p.                                                              *)
(***************************************************************************)
Transform(pos) == [position |-> pos, scale |-> <<500, 500>>, rotation |-> 0]

MatrixApply(t, p) ==
  << t.position[1] + t.scale[1] * p[1], t.position[2] + t.scale[2] * p[2] >>

(***************************************************************************)
(* Aabb::transform and collision (core/aabb.hpp, core/aabb.cpp).           *)
(***************************************************************************)
AabbTransform(aabb, t) ==
  LET a == MatrixApply(t, aabb.min)
      b == MatrixApply(t, aabb.max)
  IN  [min |-> << MinOf(a[1], b[1]), MinOf(a[2], b[2]) >>,
       max |-> << MaxOf(a[1], b[1]), MaxOf(a[2], b[2]) >>]

\* variant of collision: the first comparison admits equality
collision_OneSided(a, b) ==
  /\ a.min[1] <= b.max[1]
  /\ a.max[1] > b.min[1]
  /\ a.min[2] < b.max[2]
  /\ a.max[2] > b.min[2]

\* variant of collision: boxes that touch count as overlapping
collision_Touching(a, b) ==
  /\ a.min[1] <= b.max[1]
  /\ a.max[1] >= b.min[1]
  /\ a.min[2] <= b.max[2]
  /\ a.max[2] >= b.min[2]

collision(a, b) ==
  /\ a.min[1] < b.max[1]
  /\ a.max[1] > b.min[1]
  /\ a.min[2] < b.max[2]
  /\ a.max[2] > b.min[2]

\* world-space box of an entity: obj.aabb->transform(obj.transform.matrix())
WorldAabb(obj) == AabbTransform(Get(obj.aabb), obj.transform)

(***************************************************************************)
(* SpriteAnimation (core/sprite.hpp); frames are their durations.          *)
(***************************************************************************)
\* variant of update_frame: a transition restarts the counter at 0
update_frame_ResetCounter(anim, dt) ==
  LET t == anim.last_transit_dt + dt
      duration == anim.frames[anim.curr_frame_idx + 1]
  IN  IF t >= duration
      THEN IF anim.curr_frame_idx + 1 = Len(anim.frames)
           THEN [anim EXCEPT !.last_transit_dt = 0,
                             !.curr_frame_idx = 0,
                             !.curr_cycle_count = @ + 1]
           ELSE [anim EXCEPT !.last_transit_dt = 0,
                             !.curr_frame_idx = @ + 1]
      ELSE [anim EXCEPT !.last_transit_dt = t]

\* variant of update_frame: a transition leaves the counter as it is
update_frame_KeepCounter(anim, dt) ==
  LET t == anim.last_transit_dt + dt
      duration == anim.frames[anim.curr_frame_idx + 1]
  IN  IF t >= duration
      THEN IF anim.curr_frame_idx + 1 = Len(anim.frames)
           THEN [anim EXCEPT !.last_transit_dt = t,
                             !.curr_frame_idx = 0,
                             !.curr_cycle_count = @ + 1]
           ELSE [anim EXCEPT !.last_transit_dt = t,
                             !.curr_frame_idx = @ + 1]
      ELSE [anim EXCEPT !.last_transit_dt = t]

update_frame(anim, dt) ==
  LET t == anim.last_transit_dt + dt
      duration == anim.frames[anim.curr_frame_idx + 1]
  IN  IF t >= duration
      THEN IF anim.curr_frame_idx + 1 = Len(anim.frames)
           THEN [anim EXCEPT !.last_transit_dt = t - duration,
                             !.curr_frame_idx = 0,
                             !.curr_cycle_count = @ + 1]
           ELSE [anim EXCEPT !.last_transit_dt = t - duration,
                             !.curr_frame_idx = @ + 1]
      ELSE [anim EXCEPT !.last_transit_dt = t]

\* variant of expired: expired only at exactly max_cycles completed cycles
expired_Exact(anim) == anim.max_cycles > 0 /\ anim.curr_cycle_count = anim.max_cycles

expired(anim) == anim.max_cycles > 0 /\ anim.curr_cycle_count >= anim.max_cycles

(***************************************************************************)
(* std::sin of the enemy's update callback, for time in milliseconds,      *)
(* result in 1/100000: argument reduced to [-pi/2, pi/2] (in 1/100000      *)
(* rad), then the Taylor polynomial up to x^9 in fixed point.              *)
(***************************************************************************)
SinPoly(y) ==
  LET x  == y \div 10
      x2 == (x * x) \div 100000
      t3 == ((((x * x) \div 10000) * x) \div 6000)
      t5 == (t3 * x2) \div 20000
      t7 == (t5 * x2) \div 42000
      t9 == (t7 * x2) \div 72000
  IN  y - t3 + t5 - t7 + t9

SinSigned(y) == IF y >= 0 THEN SinPoly(y) ELSE 0 - SinPoly(0 - y)

Sin(time) ==
  LET y == (time * 100) % 628319
  IN  IF y <= 157080 THEN SinSigned(y)
      ELSE IF y <= 471239 THEN SinSigned(314159 - y)
      ELSE SinSigned(y - 628319)


(***************************************************************************)
(* GameObject (main.cpp:79) with its optional components; an optional is a *)
(* sequence of length 0 or 1.  glo is TRUE when the render handle is set;  *)
(* sound holds the id of the OpenAL source the entity shares.  The texture *)
(* and text_fmt components only feed the renderer and are left out.        *)
(***************************************************************************)
GameObject ==
  [tag |-> "?",
   transform |-> Transform(<<0, 0>>),
   prev_transform |-> Transform(<<0, 0>>),
   motion |-> [velocity |-> <<0, 0>>, acceleration |-> <<0, 0>>],
   glo |-> FALSE,
   sprite_animation |-> None,
   update |-> None,
   aabb |-> None,
   offscreen_destroy |-> FALSE,
   screen_bound |-> FALSE,
   sound |-> None,
   delay_erasing |-> None,
   health |-> None]

\* DelayErasing{}: the member initialiser makes sound = true
DelayErasing == [sound |-> TRUE]

\* variant of create_explosion: the animation loops for ever
create_explosion_Looping(src) ==
  LET t == [position |-> <<0, 0>>, scale |-> <<100, 100>>, rotation |-> 0]
  IN  [GameObject EXCEPT
         !.tag = "explosion",
         !.transform = t,
         !.prev_transform = t,
         !.glo = TRUE,
         !.sprite_animation = Some([last_transit_dt |-> 0,
                                    curr_frame_idx |-> 0,
                                    frames |-> <<40, 40, 40, 40, 40, 60>>,
                                    curr_cycle_count |-> 0,
                                    max_cycles |-> 0]),
         !.sound = Some(src)]

create_explosion(src) ==
  LET t == [position |-> <<0, 0>>, scale |-> <<100, 100>>, rotation |-> 0]
  IN  [GameObject EXCEPT
         !.tag = "explosion",
         !.transform = t,
         !.prev_transform = t,
         !.glo = TRUE,
         !.sprite_animation = Some([last_transit_dt |-> 0,
                                    curr_frame_idx |-> 0,
                                    frames |-> <<40, 40, 40, 40, 40, 60>>,
                                    curr_cycle_count |-> 0,
                                    max_cycles |-> 1]),
         !.sound = Some(src)]

create_player_projectile(src) ==
  LET t == [position |-> <<0, 0>>, scale |-> <<150, 150>>, rotation |-> 0]
  IN  [GameObject EXCEPT
         !.tag = "projectile",
         !.transform = t,
         !.prev_transform = t,
         !.motion = [velocity |-> <<0, 260000>>, acceleration |-> <<0, 0>>],
         !.glo = TRUE,
         !.aabb = Some([min |-> <<-11, -38>>, max |-> <<7, 30>>]),
         !.offscreen_destroy = TRUE,
         !.sound = Some(src)]

create_background ==
  LET t == [position |-> <<0, 0>>,
            scale |-> <<(kAspectRatio \div 100) + 100, 1100>>,
            rotation |-> 0]
  IN  [GameObject EXCEPT
         !.tag = "background",
         !.transform = t,
         !.prev_transform = t,
         !.motion = [velocity |-> <<1400, 400>>, acceleration |-> <<0, 0>>],
         !.glo = TRUE,
         !.update = Some("bounce")]

IdleAnimation ==
  [last_transit_dt |-> 0, curr_frame_idx |-> 0,
   frames |-> <<150, 150, 150, 150>>,
   curr_cycle_count |-> 0, max_cycles |-> 0]

create_player ==
  LET t == [position |-> <<0, -70000>>, scale |-> <<100, 100>>, rotation |-> 0]
  IN  [GameObject EXCEPT
         !.tag = "player",
         !.transform = t,
         !.prev_transform = t,
         !.glo = TRUE,
         !.sprite_animation = Some(IdleAnimation),
         !.aabb = Some([min |-> <<-80, -70>>, max |-> <<82, 70>>]),
         !.screen_bound = TRUE]

create_enemy ==
  LET t == [position |-> <<0, 50000>>, scale |-> <<80, -80>>, rotation |-> 0]
  IN  [GameObject EXCEPT
         !.tag = "enemy",
         !.transform = t,
         !.prev_transform = t,
         !.glo = TRUE,
         !.sprite_animation = Some(IdleAnimation),
         !.update = Some("sine"),
         !.aabb = Some([min |-> <<-55, -50>>, max |-> <<55, 50>>]),
         !.health = Some([value |-> kEnemyHealth])]

\* ObjectLists::all_lists(), in its order
Layers == <<"background", "spaceship", "projectile", "explosion", "gui", "text">>
LayerSet == {Layers[i] : i \in 1..Len(Layers)}

(***************************************************************************)
(* Keys and the handler table of init_key_handlers.  The F3/F6/F7 handlers *)
(* only toggle render options and are not modelled; KEY_A stands for a key *)
(* with no registered handler.                                             *)
(***************************************************************************)
GLFW_KEY_LEFT == "LEFT"
GLFW_KEY_RIGHT == "RIGHT"
GLFW_KEY_UP == "UP"
GLFW_KEY_DOWN == "DOWN"
GLFW_KEY_SPACE == "SPACE"
GLFW_KEY_A == "A"
GLFW_PRESS == "PRESS"
GLFW_RELEASE == "RELEASE"
GLFW_REPEAT == "REPEAT"

Keys == {GLFW_KEY_LEFT, GLFW_KEY_RIGHT, GLFW_KEY_UP, GLFW_KEY_DOWN,
         GLFW_KEY_SPACE, GLFW_KEY_A}
key_handlers == {GLFW_KEY_LEFT, GLFW_KEY_RIGHT, GLFW_KEY_UP, GLFW_KEY_DOWN,
                 GLFW_KEY_SPACE}

(***************************************************************************)
(* game_init: the Game after construction.                                 *)
(***************************************************************************)
\* variant of game_init: the enemy is pushed to the spaceship layer first
game_init_EnemyFirst ==
  [paused |-> FALSE,
   hover |-> FALSE,
   cursor |-> <<0, 0>>,
   scene |-> [background |-> <<create_background>>,
              spaceship |-> <<create_enemy, create_player>>,
              projectile |-> << >>,
              explosion |-> << >>,
              gui |-> << >>,
              text |-> << >>],
   key_states |-> [k \in Keys |-> FALSE],
   timed_actions |-> [slot \in {0} |-> None],
   screen_aabb |-> [min |-> <<0 - kAspectRatio, -100000>>,
                    max |-> <<kAspectRatio, 100000>>]]

game_init ==
  [paused |-> FALSE,
   hover |-> FALSE,
   cursor |-> <<0, 0>>,
   scene |-> [background |-> <<create_background>>,
              spaceship |-> <<create_player, create_enemy>>,
              projectile |-> << >>,
              explosion |-> << >>,
              gui |-> << >>,
              text |-> << >>],
   key_states |-> [k \in Keys |-> FALSE],
   timed_actions |-> [slot \in {0} |-> None],
   screen_aabb |-> [min |-> <<0 - kAspectRatio, -100000>>,
                    max |-> <<kAspectRatio, 100000>>]]

(***************************************************************************)
(* The record of the last operation (history, read by the properties       *)
(* only): which operation ran, the phases of a tick in the order they ran  *)
(* with the scene after each, the collisions it reacted to and the key     *)
(* handlers it invoked.                                                    *)
(***************************************************************************)
NoScene ==
  [background |-> << >>, spaceship |-> << >>, projectile |-> << >>,
   explosion |-> << >>, gui |-> << >>, text |-> << >>]

NoLog ==
  [op |-> "init", phases |-> << >>, calls |-> << >>,
   pre |-> game_init, timers |-> NoScene, erasing |-> NoScene, cursor |-> NoScene,
   update |-> NoScene, projectile |-> NoScene, player |-> NoScene,
   playing |-> {}, hits |-> << >>, crashes |-> << >>,
   paused_projectile |-> FALSE]

\* the state an operation works on: the Game, the playing OpenAL sources,
\* and the record being written
St(g, al, op) == [game |-> g, al |-> al,
                  log |-> [NoLog EXCEPT !.op = op, !.pre = g]]

\* a phase of game_update has run: its name, and the scene it left
Phase(s, name) ==
  [s EXCEPT !.log = [[@ EXCEPT !.phases = Append(@, name)]
                        EXCEPT ![name] = s.game.scene]]

\* OpenAL source ids referenced by some entity
SourcesOf(scene) ==
  UNION {{Get(scene[l][i].sound) : i \in {j \in 1..Len(scene[l]) : Has(scene[l][j].sound)}}
         : l \in LayerSet}

\* create_audio_source: alGenSources returns an id not in use
create_audio_source(s) ==
  CHOOSE n \in 1..(Cardinality(SourcesOf(s.game.scene)) + 1) :
    /\ n \notin SourcesOf(s.game.scene)
    /\ \A m \in 1..(n - 1) : m \in SourcesOf(s.game.scene)

\* ALSource::play
play(s, src) == [s EXCEPT !.al = @ \cup {src}]

(***************************************************************************)
(* key_space_handler's spawn_projectile: two projectiles at the player's   *)
(* wings, the second a copy-modified first, both holding the same source.  *)
(***************************************************************************)
\* variant of spawn_projectile: the projectiles carry no bounding box
spawn_projectile_NoBox(s) ==
  LET player == s.game.scene.spaceship[1]
      src == create_audio_source(s)
      projectile == [create_player_projectile(src) EXCEPT !.aabb = None]
      p == player.transform.position
      t1 == [projectile.transform EXCEPT
               !.position = <<p[1] - 6200 + 500, p[2] + 12500>>]
      t2 == [projectile.transform EXCEPT
               !.position = <<p[1] + 6200, p[2] + 12500>>]
      first == [projectile EXCEPT !.transform = t1, !.prev_transform = t1]
      second == [projectile EXCEPT !.transform = t2, !.prev_transform = t2]
      s1 == [s EXCEPT !.game.scene.projectile = @ \o <<first, second>>]
  IN  play(s1, src)

spawn_projectile(s) ==
  LET player == s.game.scene.spaceship[1]
      src == create_audio_source(s)
      projectile == create_player_projectile(src)
      p == player.transform.position
      t1 == [projectile.transform EXCEPT
               !.position = <<p[1] - 6200 + 500, p[2] + 12500>>]
      t2 == [projectile.transform EXCEPT
               !.position = <<p[1] + 6200, p[2] + 12500>>]
      first == [projectile EXCEPT !.transform = t1, !.prev_transform = t1]
      second == [projectile EXCEPT !.transform = t2, !.prev_transform = t2]
      s1 == [s EXCEPT !.game.scene.projectile = @ \o <<first, second>>]
  IN  play(s1, src)

Called(s, key, action) == [s EXCEPT !.log.calls = Append(@, <<key, action>>)]

\* the press / repeat branch of key_left_right_handler
LeftRightMove(s, key) ==
  LET direction == IF key = GLFW_KEY_LEFT THEN -1 ELSE 1
  IN  [s EXCEPT !.game.scene.spaceship[1].motion.velocity[1] = 50000 * direction,
                !.game.scene.spaceship[1].motion.acceleration[1] = 180000 * direction]

\* variant of key_left_right_handler: a release always ceases the movement
key_left_right_handler_NoRevert(s, key, action) ==
  LET s0 == Called(s, key, action)
  IN  IF action = GLFW_PRESS \/ action = GLFW_REPEAT
      THEN LeftRightMove(s0, key)
      ELSE IF action = GLFW_RELEASE
      THEN [s0 EXCEPT !.game.scene.spaceship[1].motion.velocity[1] = 0,
                      !.game.scene.spaceship[1].motion.acceleration[1] = 0]
      ELSE s0

key_left_right_handler(s, key, action) ==
  LET s0 == Called(s, key, action)
      other_key == IF key = GLFW_KEY_LEFT THEN GLFW_KEY_RIGHT ELSE GLFW_KEY_LEFT
  IN  IF action = GLFW_PRESS \/ action = GLFW_REPEAT
      THEN LeftRightMove(s0, key)
      ELSE IF action = GLFW_RELEASE
      THEN IF s0.game.key_states[other_key]
           THEN LeftRightMove(Called(s0, other_key, GLFW_REPEAT), other_key)
           ELSE [s0 EXCEPT !.game.scene.spaceship[1].motion.velocity[1] = 0,
                           !.game.scene.spaceship[1].motion.acceleration[1] = 0]
      ELSE s0

\* the press / repeat branch of key_up_down_handler
UpDownMove(s, key) ==
  LET direction == IF key = GLFW_KEY_UP THEN 1 ELSE -1
  IN  [s EXCEPT !.game.scene.spaceship[1].motion.velocity[2] = 50000 * direction,
                !.game.scene.spaceship[1].motion.acceleration[2] = 120000 * direction]

key_up_down_handler(s, key, action) ==
  LET s0 == Called(s, key, action)
      other_key == IF key = GLFW_KEY_UP THEN GLFW_KEY_DOWN ELSE GLFW_KEY_UP
  IN  IF action = GLFW_PRESS \/ action = GLFW_REPEAT
      THEN UpDownMove(s0, key)
      ELSE IF action = GLFW_RELEASE
      THEN IF s0.game.key_states[other_key]
           THEN UpDownMove(Called(s0, other_key, GLFW_REPEAT), other_key)
           ELSE [s0 EXCEPT !.game.scene.spaceship[1].motion.velocity[2] = 0,
                           !.game.scene.spaceship[1].motion.acceleration[2] = 0]
      ELSE s0

\* variant of key_space_handler: the release leaves the timed action in place
key_space_handler_KeepTimer(s, key, action) ==
  LET s0 == Called(s, key, action)
  IN  IF action = GLFW_PRESS
      THEN [spawn_projectile(s0) EXCEPT
              !.game.timed_actions[0] =
                 Some([tick_dt |-> 0, duration |-> kFireDuration,
                       action |-> "spawn_projectile"])]
      ELSE s0

key_space_handler(s, key, action) ==
  LET s0 == Called(s, key, action)
  IN  IF action = GLFW_PRESS
      THEN [spawn_projectile(s0) EXCEPT
              !.game.timed_actions[0] =
                 Some([tick_dt |-> 0, duration |-> kFireDuration,
                       action |-> "spawn_projectile"])]
      ELSE IF action = GLFW_RELEASE
      THEN [s0 EXCEPT !.game.timed_actions[0] = None]
      ELSE s0

\* the call through the handler table: handler(game, key, action, mods)
handler(s, key, action) ==
  IF key \in {GLFW_KEY_LEFT, GLFW_KEY_RIGHT} THEN key_left_right_handler(s, key, action)
  ELSE IF key \in {GLFW_KEY_UP, GLFW_KEY_DOWN} THEN key_up_down_handler(s, key, action)
  ELSE key_space_handler(s, key, action)

(***************************************************************************)
(* game_resume and game_pause.  order lists the held keys in the order in  *)
(* which the loop over the unordered key_states map meets them.            *)
(***************************************************************************)
\* variant of game_resume: resuming also gives the player its render handle back
game_resume_RestoreHandle(s) ==
  IF ~s.game.paused THEN s
  ELSE [s EXCEPT !.game.paused = FALSE, !.game.scene.spaceship[1].glo = TRUE]

game_resume(s) ==
  IF ~s.game.paused THEN s ELSE [s EXCEPT !.game.paused = FALSE]

RECURSIVE ReleaseKeys(_, _, _)
ReleaseKeys(s, order, i) ==
  IF i > Len(order) THEN s
  ELSE LET key == order[i]
           s1 == IF s.game.key_states[key]
                 THEN LET s2 == [s EXCEPT !.game.key_states[key] = FALSE]
                      IN  IF key \in key_handlers
                          THEN handler(s2, key, GLFW_RELEASE)
                          ELSE s2
                 ELSE s
       IN  ReleaseKeys(s1, order, i + 1)

\* variant of game_pause: pausing also presses the fire key
game_pause_PressSpace(s, order) ==
  IF s.game.paused THEN s
  ELSE [handler(ReleaseKeys(s, order, 1), GLFW_KEY_SPACE, GLFW_PRESS)
          EXCEPT !.game.paused = TRUE]

\* variant of game_pause: no early return when already paused
game_pause_NoGuard(s, order) ==
  [ReleaseKeys(s, order, 1) EXCEPT !.game.paused = TRUE]

game_pause(s, order) ==
  IF s.game.paused THEN s
  ELSE [ReleaseKeys(s, order, 1) EXCEPT !.game.paused = TRUE]

(***************************************************************************)
(* game_update, phase by phase.  dt and time are in milliseconds.          *)
(***************************************************************************)

\* TimedAction::update; the only action the game registers spawns projectiles
TimedActionUpdate(s, slot, dt) ==
  LET ta == Get(s.game.timed_actions[slot])
      t == ta.tick_dt + dt
  IN  IF t >= ta.duration
      THEN spawn_projectile(
             [s EXCEPT !.game.timed_actions[slot] =
                          Some([ta EXCEPT !.tick_dt = t - ta.duration])])
      ELSE [s EXCEPT !.game.timed_actions[slot] = Some([ta EXCEPT !.tick_dt = t])]

\* "Update TimedAction's"
TimerSweep(s, dt) ==
  IF Has(s.game.timed_actions[0]) THEN TimedActionUpdate(s, 0, dt) ELSE s

\* variant of Erase: the marker alone decides, a playing sound is not waited for
Erase_IgnoreSound(obj, al) == Has(obj.delay_erasing)

\* the erase decision of the "Erasing system" for one entity
Erase(obj, al) ==
  IF Has(obj.delay_erasing)
  THEN IF Get(obj.delay_erasing).sound /\ Has(obj.sound)
       THEN ~(Get(obj.sound) \in al)
       ELSE TRUE
  ELSE FALSE

\* variant of EraseLoop: the erased entity's place is taken by the last entity
RECURSIVE EraseLoop_SwapRemove(_, _, _)
EraseLoop_SwapRemove(list, i, al) ==
  IF i > Len(list) THEN list
  ELSE IF Erase(list[i], al)
       THEN EraseLoop_SwapRemove(
              IF i = Len(list) THEN SubSeq(list, 1, i - 1)
              ELSE SubSeq([list EXCEPT ![i] = list[Len(list)]], 1, Len(list) - 1),
              i, al)
       ELSE EraseLoop_SwapRemove(list, i + 1, al)

\* the iterator loop over one layer: erase or step
RECURSIVE EraseLoop(_, _, _)
EraseLoop(list, i, al) ==
  IF i > Len(list) THEN list
  ELSE IF Erase(list[i], al)
       THEN EraseLoop(SubSeq(list, 1, i - 1) \o SubSeq(list, i + 1, Len(list)), i, al)
       ELSE EraseLoop(list, i + 1, al)

\* "Update Erasing system"; an erased entity drops its reference to its
\* sound source, and a source nobody references is deleted (~ALSource)
LifecycleSweep(s) ==
  LET E(list) == EraseLoop(list, 1, s.al)
      scene == [background |-> E(s.game.scene.background),
                spaceship |-> E(s.game.scene.spaceship),
                projectile |-> E(s.game.scene.projectile),
                explosion |-> E(s.game.scene.explosion),
                gui |-> E(s.game.scene.gui),
                text |-> E(s.game.scene.text)]
  IN  [s EXCEPT !.game.scene = scene,
                !.al = {a \in s.al : a \in SourcesOf(scene)},
                !.log.playing = s.al]

\* Cursor::normalized, window and viewport at their initial size
normalized(pos) ==
  << ((pos[1] * 2 * kAspectRatio) \div kWidth) - kAspectRatio,
     100000 - ((pos[2] * 200000) \div kHeight) >>

\* "Cursor Picking system"
CursorPicking(s) ==
  LET cursor_pos == normalized(s.game.cursor)
      cursor_aabb == [min |-> cursor_pos,
                      max |-> << cursor_pos[1] + (100000 \div kWidth),
                                 cursor_pos[2] + (100000 \div kHeight) >>]
      ships == s.game.scene.spaceship
  IN  [s EXCEPT !.game.hover =
         \E i \in 1..Len(ships) :
            /\ Has(ships[i].aabb)
            /\ collision(cursor_aabb, WorldAabb(ships[i]))]

\* variant of Teleported: the entity is put at the centre of the screen
Teleported_Origin == Transform(<<0, 0>>)

Teleported == Transform(<<kSentinel, kSentinel>>)

\* the UpdateFn callbacks of game_init: the background bounces in a box,
\* the enemy sweeps along a sine
UpdateFn(obj, dt, time) ==
  IF Get(obj.update) = "bounce"
  THEN LET p == obj.transform.position
           v == obj.motion.velocity
       IN  [obj EXCEPT !.motion.velocity =
              << IF p[1] < -3000 \/ p[1] >= 3000 THEN 0 - v[1] ELSE v[1],
                 IF p[2] < -3000 \/ p[2] >= 3000 THEN 0 - v[2] ELSE v[2] >>]
  ELSE [obj EXCEPT !.transform.position[1] = (Sin(time) * 2) \div 5]

Motion(obj, dt) ==
  LET v == << obj.motion.velocity[1] + (obj.motion.acceleration[1] * dt) \div 1000,
              obj.motion.velocity[2] + (obj.motion.acceleration[2] * dt) \div 1000 >>
  IN  [obj EXCEPT !.prev_transform = obj.transform,
                  !.motion.velocity = v,
                  !.transform.position = << @[1] + (v[1] * dt) \div 1000,
                                            @[2] + (v[2] * dt) \div 1000 >>]

\* variant of SpriteAnimationSystem: expiry is tested before the advance
SpriteAnimationSystem_ExpiredBeforeAdvance(obj, dt) ==
  IF Has(obj.sprite_animation)
  THEN LET anim == update_frame(Get(obj.sprite_animation), dt)
           o1 == [obj EXCEPT !.sprite_animation = Some(anim)]
       IN  IF expired(Get(obj.sprite_animation)) /\ ~Has(o1.delay_erasing)
           THEN [o1 EXCEPT !.delay_erasing = Some([sound |-> TRUE]),
                           !.transform = Teleported,
                           !.prev_transform = Teleported]
           ELSE o1
  ELSE obj

SpriteAnimationSystem(obj, dt) ==
  IF Has(obj.sprite_animation)
  THEN LET anim == update_frame(Get(obj.sprite_animation), dt)
           o1 == [obj EXCEPT !.sprite_animation = Some(anim)]
       IN  IF expired(anim) /\ ~Has(o1.delay_erasing)
           THEN [o1 EXCEPT !.delay_erasing = Some([sound |-> TRUE]),
                           !.transform = Teleported,
                           !.prev_transform = Teleported]
           ELSE o1
  ELSE obj

\* variant of OffScreenDestroySystem: the box of the previous tick is tested
OffScreenDestroySystem_PrevTransform(obj, screen_aabb) ==
  IF obj.offscreen_destroy
  THEN IF /\ ~collision(AabbTransform(Get(obj.aabb), obj.prev_transform), screen_aabb)
          /\ ~Has(obj.delay_erasing)
       THEN [obj EXCEPT !.delay_erasing = Some(DelayErasing)]
       ELSE obj
  ELSE obj

OffScreenDestroySystem(obj, screen_aabb) ==
  IF obj.offscreen_destroy
  THEN IF ~collision(WorldAabb(obj), screen_aabb) /\ ~Has(obj.delay_erasing)
       THEN [obj EXCEPT !.delay_erasing = Some(DelayErasing)]
       ELSE obj
  ELSE obj

\* variant of ScreenBoundSystem: an entity stopped at an edge loses its speed
ScreenBoundSystem_Stop(obj, screen_aabb) ==
  IF obj.screen_bound
  THEN LET p == obj.transform.position
           x1 == IF p[1] < screen_aabb.min[1] THEN screen_aabb.min[1] ELSE p[1]
           y1 == IF p[2] < screen_aabb.min[2] THEN screen_aabb.min[2] ELSE p[2]
           x2 == IF x1 > screen_aabb.max[1] THEN screen_aabb.max[1] ELSE x1
           y2 == IF y1 > screen_aabb.max[2] THEN screen_aabb.max[2] ELSE y1
       IN  [obj EXCEPT !.transform.position = <<x2, y2>>,
                       !.motion.velocity = << IF x2 = p[1] THEN @[1] ELSE 0,
                                              IF y2 = p[2] THEN @[2] ELSE 0 >>]
  ELSE obj

ScreenBoundSystem(obj, screen_aabb) ==
  IF obj.screen_bound
  THEN LET p == obj.transform.position
           x1 == IF p[1] < screen_aabb.min[1] THEN screen_aabb.min[1] ELSE p[1]
           y1 == IF p[2] < screen_aabb.min[2] THEN screen_aabb.min[2] ELSE p[2]
           x2 == IF x1 > screen_aabb.max[1] THEN screen_aabb.max[1] ELSE x1
           y2 == IF y1 > screen_aabb.max[2] THEN screen_aabb.max[2] ELSE y1
       IN  [obj EXCEPT !.transform.position = <<x2, y2>>]
  ELSE obj

\* the body of the "Update all objects" loop for one entity
UpdateObject(obj, dt, time, screen_aabb) ==
  LET o1 == Motion(obj, dt)
      o2 == SpriteAnimationSystem(o1, dt)
      o3 == IF Has(o2.update) THEN UpdateFn(o2, dt, time) ELSE o2
      o4 == OffScreenDestroySystem(o3, screen_aabb)
  IN  ScreenBoundSystem(o4, screen_aabb)

RECURSIVE UpdateLoop(_, _, _, _, _)
UpdateLoop(list, i, dt, time, screen_aabb) ==
  IF i > Len(list) THEN list
  ELSE UpdateLoop([list EXCEPT ![i] = UpdateObject(list[i], dt, time, screen_aabb)],
                  i + 1, dt, time, screen_aabb)

\* "Update all objects": every layer of all_lists(), every entity of it
UpdateAllObjects(s, dt, time) ==
  LET U(list) == UpdateLoop(list, 1, dt, time, s.game.screen_aabb)
  IN  [s EXCEPT !.game.scene =
         [background |-> U(s.game.scene.background),
          spaceship |-> U(s.game.scene.spaceship),
          projectile |-> U(s.game.scene.projectile),
          explosion |-> U(s.game.scene.explosion),
          gui |-> U(s.game.scene.gui),
          text |-> U(s.game.scene.text)]]

\* an explosion at pos, its sound started, appended to the explosion layer
SpawnExplosion(s, pos) ==
  LET src == create_audio_source(s)
      e0 == create_explosion(src)
      t == [e0.transform EXCEPT !.position = pos]
      explosion == [e0 EXCEPT !.transform = t, !.prev_transform = t]
  IN  play([s EXCEPT !.game.scene.explosion = Append(@, explosion)], src)

\* variant of ProjectileHit: the explosion is placed after the projectile
\* has been teleported
ProjectileHit_ExplodeAfterTeleport(s, si, pi, order) ==
  LET projectile == s.game.scene.projectile[pi]
      s1 == IF ~Has(projectile.delay_erasing)
            THEN [s EXCEPT
                    !.game.scene.projectile[pi].delay_erasing = Some([sound |-> TRUE]),
                    !.game.scene.projectile[pi].transform = Teleported,
                    !.game.scene.projectile[pi].prev_transform = Teleported]
            ELSE s
      s2 == SpawnExplosion(s1, s1.game.scene.projectile[pi].transform.position)
      value == Get(s2.game.scene.spaceship[si].health).value - 1
      s3 == [s2 EXCEPT !.game.scene.spaceship[si].health = Some([value |-> value])]
      s4 == IF value <= 0
            THEN game_pause(
                   [s3 EXCEPT
                      !.game.scene.spaceship[si].delay_erasing = Some(DelayErasing),
                      !.game.scene.spaceship[si].transform = Teleported,
                      !.game.scene.spaceship[si].prev_transform =
                          s3.game.scene.projectile[pi].transform],
                   order)
            ELSE s3
  IN  [s4 EXCEPT !.log.hits =
         Append(@, [ship |-> si, proj |-> pi,
                    pos |-> projectile.transform.position,
                    marked |-> Has(projectile.delay_erasing),
                    health |-> value + 1])]

\* variant of ProjectileHit: the spaceship is depleted only below zero
ProjectileHit_DepleteBelowZero(s, si, pi, order) ==
  LET projectile == s.game.scene.projectile[pi]
      s1 == SpawnExplosion(s, projectile.transform.position)
      s2 == IF ~Has(projectile.delay_erasing)
            THEN [s1 EXCEPT
                    !.game.scene.projectile[pi].delay_erasing = Some([sound |-> TRUE]),
                    !.game.scene.projectile[pi].transform = Teleported,
                    !.game.scene.projectile[pi].prev_transform = Teleported]
            ELSE s1
      value == Get(s2.game.scene.spaceship[si].health).value - 1
      s3 == [s2 EXCEPT !.game.scene.spaceship[si].health = Some([value |-> value])]
      s4 == IF value < 0
            THEN game_pause(
                   [s3 EXCEPT
                      !.game.scene.spaceship[si].delay_erasing = Some(DelayErasing),
                      !.game.scene.spaceship[si].transform = Teleported,
                      !.game.scene.spaceship[si].prev_transform =
                          s3.game.scene.projectile[pi].transform],
                   order)
            ELSE s3
  IN  [s4 EXCEPT !.log.hits =
         Append(@, [ship |-> si, proj |-> pi,
                    pos |-> projectile.transform.position,
                    marked |-> Has(projectile.delay_erasing),
                    health |-> value + 1])]

\* variant of ProjectileHit: the depletion lands on the first spaceship of
\* the layer instead of the one the loop is at
ProjectileHit_DepleteFront(s, si, pi, order) ==
  LET projectile == s.game.scene.projectile[pi]
      s1 == SpawnExplosion(s, projectile.transform.position)
      s2 == IF ~Has(projectile.delay_erasing)
            THEN [s1 EXCEPT
                    !.game.scene.projectile[pi].delay_erasing = Some([sound |-> TRUE]),
                    !.game.scene.projectile[pi].transform = Teleported,
                    !.game.scene.projectile[pi].prev_transform = Teleported]
            ELSE s1
      value == Get(s2.game.scene.spaceship[si].health).value - 1
      s3 == [s2 EXCEPT !.game.scene.spaceship[si].health = Some([value |-> value])]
      s4 == IF value <= 0
            THEN game_pause(
                   [s3 EXCEPT
                      !.game.scene.spaceship[1].delay_erasing = Some(DelayErasing),
                      !.game.scene.spaceship[1].transform = Teleported,
                      !.game.scene.spaceship[1].prev_transform =
                          s3.game.scene.projectile[pi].transform],
                   order)
            ELSE s3
  IN  [s4 EXCEPT !.log.hits =
         Append(@, [ship |-> si, proj |-> pi,
                    pos |-> projectile.transform.position,
                    marked |-> Has(projectile.delay_erasing),
                    health |-> value + 1])]

\* the reaction to one overlapping (spaceship si, projectile pi) pair
ProjectileHit(s, si, pi, order) ==
  LET projectile == s.game.scene.projectile[pi]
      s1 == SpawnExplosion(s, projectile.transform.position)
      s2 == IF ~Has(projectile.delay_erasing)
            THEN [s1 EXCEPT
                    !.game.scene.projectile[pi].delay_erasing = Some([sound |-> TRUE]),
                    !.game.scene.projectile[pi].transform = Teleported,
                    !.game.scene.projectile[pi].prev_transform = Teleported]
            ELSE s1
      value == Get(s2.game.scene.spaceship[si].health).value - 1
      s3 == [s2 EXCEPT !.game.scene.spaceship[si].health = Some([value |-> value])]
      s4 == IF value <= 0
            THEN game_pause(
                   [s3 EXCEPT
                      !.game.scene.spaceship[si].delay_erasing = Some(DelayErasing),
                      !.game.scene.spaceship[si].transform = Teleported,
                      !.game.scene.spaceship[si].prev_transform =
                          s3.game.scene.projectile[pi].transform],
                   order)
            ELSE s3
  IN  [s4 EXCEPT !.log.hits =
         Append(@, [ship |-> si, proj |-> pi,
                    pos |-> projectile.transform.position,
                    marked |-> Has(projectile.delay_erasing),
                    health |-> value + 1])]

\* the two nested loops of the "Projectile<->Spaceship Collision system":
\* spaceships from the second entry on, every projectile against each
RECURSIVE ProjectileLoop(_, _, _, _)
ProjectileLoop(s, si, pi, order) ==
  IF si > Len(s.game.scene.spaceship) THEN s
  ELSE IF pi > Len(s.game.scene.projectile) THEN ProjectileLoop(s, si + 1, 1, order)
  ELSE LET projectile_aabb == WorldAabb(s.game.scene.projectile[pi])
           spaceship_aabb == WorldAabb(s.game.scene.spaceship[si])
       IN  IF collision(projectile_aabb, spaceship_aabb)
           THEN ProjectileLoop(ProjectileHit(s, si, pi, order), si, pi + 1, order)
           ELSE ProjectileLoop(s, si, pi + 1, order)

ProjectileSpaceshipCollision(s, order) == ProjectileLoop(s, 2, 1, order)

\* the loop of the "Player<->Enemy Spaceships Collision system"
RECURSIVE EnemyLoop(_, _, _)
EnemyLoop(s, ei, order) ==
  IF ei > Len(s.game.scene.spaceship) THEN s
  ELSE LET player == s.game.scene.spaceship[1]
           enemy == s.game.scene.spaceship[ei]
       IN  IF collision(WorldAabb(player), WorldAabb(enemy))
           THEN LET s1 == SpawnExplosion(s, player.transform.position)
                    s2 == [s1 EXCEPT !.game.scene.spaceship[1].glo = FALSE,
                                     !.log.crashes = Append(@, ei)]
                IN  EnemyLoop(game_pause(s2, order), ei + 1, order)
           ELSE EnemyLoop(s, ei + 1, order)

\* variant of PlayerEnemyCollision: the pass runs whether paused or not
PlayerEnemyCollision_Always(s, order) == EnemyLoop(s, 2, order)

PlayerEnemyCollision(s, order) ==
  IF ~s.game.paused THEN EnemyLoop(s, 2, order) ELSE s

\* variant of game_update: the erasing system runs after the collision passes
game_update_SweepLast(s, dt, time, order) ==
  LET s1 == Phase(TimerSweep(s, dt), "timers")
      s3 == Phase(CursorPicking(s1), "cursor")
      s4 == Phase(UpdateAllObjects(s3, dt, time), "update")
      s5 == Phase(ProjectileSpaceshipCollision(s4, order), "projectile")
      s6 == [s5 EXCEPT !.log.paused_projectile = s5.game.paused]
      s7 == Phase(PlayerEnemyCollision(s6, order), "player")
  IN  Phase(LifecycleSweep(s7), "erasing")

\* variant of game_update: a paused game is not simulated
game_update_PausedStops(s, dt, time, order) ==
  IF s.game.paused
  THEN Phase(Phase(Phase(Phase(Phase(Phase(s, "timers"), "erasing"), "cursor"),
                         "update"), "projectile"), "player")
  ELSE LET s1 == Phase(TimerSweep(s, dt), "timers")
           s2 == Phase(LifecycleSweep(s1), "erasing")
           s3 == Phase(CursorPicking(s2), "cursor")
           s4 == Phase(UpdateAllObjects(s3, dt, time), "update")
           s5 == Phase(ProjectileSpaceshipCollision(s4, order), "projectile")
           s6 == [s5 EXCEPT !.log.paused_projectile = s5.game.paused]
       IN  Phase(PlayerEnemyCollision(s6, order), "player")

game_update(s, dt, time, order) ==
  LET s1 == Phase(TimerSweep(s, dt), "timers")
      s2 == Phase(LifecycleSweep(s1), "erasing")
      s3 == Phase(CursorPicking(s2), "cursor")
      s4 == Phase(UpdateAllObjects(s3, dt, time), "update")
      s5 == Phase(ProjectileSpaceshipCollision(s4, order), "projectile")
      s6 == [s5 EXCEPT !.log.paused_projectile = s5.game.paused]
  IN  Phase(PlayerEnemyCollision(s6, order), "player")

(***************************************************************************)
(* The callbacks GLFW delivers between ticks.                              *)
(***************************************************************************)
key_event_callback(s, key, action) ==
  LET s1 == IF key \in key_handlers THEN handler(s, key, action) ELSE s
  IN  [s1 EXCEPT !.game.key_states[key] = (action = GLFW_PRESS)]

window_focus_callback(s, focused, order) ==
  IF focused THEN game_resume(s) ELSE game_pause(s, order)

cursor_position_callback(s, pos) == [s EXCEPT !.game.cursor = pos]

(***************************************************************************)
(* Initial states: the game as game_init builds it, and snapshots of later *)
(* play.  A snapshot is the constructed game after `ticks` idle ticks      *)
(* (which puts the background, the enemy and the animations where the      *)
(* code puts them), with the player flown to `player` and stopped there,   *)
(* the enemy's health lowered to `health` by earlier hits and, for         *)
(* `explosion`, the explosion of a hit 24 ticks ago still in its layer.    *)
(***************************************************************************)
RECURSIVE IdleTicks(_, _, _)
IdleTicks(s, n, time) ==
  IF n = 0 THEN s
  ELSE IF n = 1 THEN game_update(St(s.game, s.al, "tick"), timestep, time, << >>)
  ELSE LET h == n \div 2
           s1 == IdleTicks(s, h, time)
       IN  IF s1.game.paused THEN s1
           ELSE IdleTicks(s1, n - h, time + h * timestep)

RECURSIVE Aged(_, _)
Aged(obj, n) ==
  IF n = 0 THEN obj
  ELSE LET o == UpdateObject(obj, timestep, 0, game_init.screen_aabb)
       IN  IF Has(o.delay_erasing) THEN o ELSE Aged(o, n - 1)

Scenarios ==
  { [player |-> <<0, -70000>>, health |-> kEnemyHealth, ticks |-> 0, explosion |-> FALSE],
    [player |-> <<-300, 38500>>, health |-> 2, ticks |-> 314, explosion |-> FALSE],
    [player |-> <<-300, 38500>>, health |-> 1, ticks |-> 314, explosion |-> TRUE],
    [player |-> <<60000, 90000>>, health |-> 9, ticks |-> 0, explosion |-> FALSE],
    [player |-> <<177500, 90000>>, health |-> kEnemyHealth, ticks |-> 0, explosion |-> FALSE] }

\* the player flown to scn.player, the enemy hit down to scn.health
Placed(s, scn) ==
  LET at == [s.game.scene.spaceship[1].transform EXCEPT !.position = scn.player]
      s1 == [s EXCEPT !.game.scene.spaceship[1].transform = at,
                      !.game.scene.spaceship[1].prev_transform = at,
                      !.game.scene.spaceship[2].health = Some([value |-> scn.health])]
      old == LET e0 == create_explosion(1)
                 t == [e0.transform EXCEPT !.position = <<5900, 53600>>]
             IN  Aged([e0 EXCEPT !.transform = t, !.prev_transform = t], 24)
  IN  IF scn.explosion
      THEN [s1 EXCEPT !.game.scene.explosion = <<old>>, !.al = {1}]
      ELSE s1

Snapshot(scn) == Placed(IdleTicks(St(game_init, {}, "init"), scn.ticks, 0), scn)

CursorInputs == {<<0, 0>>, <<640, 180>>}

\* the keys the player touches
KeyInputs == {GLFW_KEY_LEFT, GLFW_KEY_RIGHT, GLFW_KEY_UP, GLFW_KEY_SPACE, GLFW_KEY_A}

HeldKeys(g) == {k \in Keys : g.key_states[k]}

\* the orders in which a loop over an unordered map may meet the keys of S
Orders(S) ==
  {q \in [1..Cardinality(S) -> S] : \A i, j \in 1..Cardinality(S) : q[i] = q[j] => i = j}

Init ==
  \E scn \in Scenarios : \E s \in {Snapshot(scn)} :
    /\ game = s.game
    /\ al_playing = s.al
    /\ epochtime = scn.ticks * timestep
    /\ glfw_keys = [k \in Keys |-> FALSE]
    /\ last = NoLog
    /\ n_ticks = 0
    /\ n_events = 0
    /\ loop = None
    /\ sprite = None
    /\ cache = None
    /\ geo = None

Done(s) ==
  /\ game' = s.game
  /\ al_playing' = s.al
  /\ last' = s.log
  /\ UNCHANGED <<loop, sprite, cache, geo>>

\* one iteration of game_loop's catch-up loop: game_update, then the clock
Tick ==
  /\ n_ticks < MaxTicks
  /\ \E order \in Orders(HeldKeys(game)) :
       Done(game_update(St(game, al_playing, "game_update"), timestep, epochtime, order))
  /\ epochtime' = epochtime + timestep
  /\ n_ticks' = n_ticks + 1
  /\ UNCHANGED <<glfw_keys, n_events>>

\* GLFW reports a key going down or up
KeyEvent ==
  /\ n_events < MaxEvents
  /\ \E key \in KeyInputs, action \in {GLFW_PRESS, GLFW_RELEASE} :
       /\ glfw_keys[key] = (action = GLFW_RELEASE)
       /\ (key = GLFW_KEY_SPACE /\ action = GLFW_PRESS)
             => Len(game.scene.projectile) + 2 <= MaxProjectiles
       /\ Done(key_event_callback(St(game, al_playing, "key_event"), key, action))
       /\ glfw_keys' = [glfw_keys EXCEPT ![key] = (action = GLFW_PRESS)]
  /\ n_events' = n_events + 1
  /\ UNCHANGED <<epochtime, n_ticks>>

\* the window loses focus
FocusLost ==
  /\ n_events < MaxEvents
  /\ \E order \in Orders(HeldKeys(game)) :
       Done(window_focus_callback(St(game, al_playing, "focus_lost"), FALSE, order))
  /\ n_events' = n_events + 1
  /\ UNCHANGED <<glfw_keys, epochtime, n_ticks>>

\* the window gains focus
FocusGained ==
  /\ n_events < MaxEvents
  /\ Done(window_focus_callback(St(game, al_playing, "focus_gained"), TRUE, << >>))
  /\ n_events' = n_events + 1
  /\ UNCHANGED <<glfw_keys, epochtime, n_ticks>>

\* the pointer moves
CursorMoved ==
  /\ n_events < MaxEvents
  /\ \E pos \in CursorInputs :
       /\ pos # game.cursor
       /\ Done(cursor_position_callback(St(game, al_playing, "cursor_moved"), pos))
  /\ n_events' = n_events + 1
  /\ UNCHANGED <<glfw_keys, epochtime, n_ticks>>

\* OpenAL: a playing source reaches the end of its buffer
SoundEnds ==
  /\ \E src \in al_playing :
       Done([St(game, al_playing, "sound_ends") EXCEPT !.al = @ \ {src}])
  /\ UNCHANGED <<glfw_keys, epochtime, n_ticks, n_events>>

Next ==
  \/ Tick
  \/ KeyEvent
  \/ FocusLost
  \/ FocusGained
  \/ CursorMoved
  \/ SoundEnds

Spec == Init /\ [][Next]_vars

(***************************************************************************)
(* Properties.  They read the record of the last operation: last.update is *)
(* the scene the collision passes start from, last.projectile the scene    *)
(* between the two passes, game.scene the scene at the end of the tick.    *)
(***************************************************************************)
TickDone == last.op = "game_update"

Sentinel == <<kSentinel, kSentinel>>

\* projectile pi and spaceship si of scene sc overlap
Overlap(sc, si, pi) ==
  collision(WorldAabb(sc.projectile[pi]), WorldAabb(sc.spaceship[si]))

HealthOf(sc, si) == Get(sc.spaceship[si].health).value

\* the reactions of the projectile pass to spaceship si
HitsOn(si) == {k \in 1..Len(last.hits) : last.hits[k].ship = si}

\* spaceship si had been depleted before the pass came to projectile pi
DepletedBefore(si, pi) ==
  \E k \in HitsOn(si) : last.hits[k].proj < pi /\ last.hits[k].health <= 1

\* C1: every projectile that overlaps a non-player spaceship in the
\* projectile pass ends the tick with a delayed-erase marker, has put exactly
\* one explosion into the explosion layer at the position it had before it
\* was teleported, and has cost that spaceship exactly one point of health.
\* The overlaps of the pass are those of the scene the pass starts from,
\* up to the spaceship being depleted and teleported during the pass.
C1_ProjectileHitEffects ==
  TickDone =>
    LET U == last.update
        P == last.projectile
        F == game.scene
    IN  /\ \A si \in 2..Len(U.spaceship), pi \in 1..Len(U.projectile) :
             (Overlap(U, si, pi) /\ ~DepletedBefore(si, pi))
                => \E k \in HitsOn(si) : last.hits[k].proj = pi
        /\ \A k \in 1..Len(last.hits) :
             LET h == last.hits[k]
             IN  /\ h.ship \in 2..Len(U.spaceship)
                 /\ ~h.marked => Overlap(U, h.ship, h.proj)
                 /\ h.pos = U.projectile[h.proj].transform.position
                 /\ Has(F.projectile[h.proj].delay_erasing)
                 /\ F.explosion[Len(U.explosion) + k].transform.position = h.pos
                 /\ F.explosion[Len(U.explosion) + k].tag = "explosion"
        /\ Len(P.explosion) = Len(U.explosion) + Len(last.hits)
        /\ Len(F.projectile) = Len(U.projectile)
        /\ \A si \in 2..Len(U.spaceship) :
             HealthOf(F, si) = HealthOf(U, si) - Cardinality(HitsOn(si))

\* a live projectile has hit the enemy in the tick just taken
C1_Witness ==
  /\ TickDone
  /\ \E pi \in 1..Len(last.update.projectile) :
       /\ Overlap(last.update, 2, pi)
       /\ ~Has(last.update.projectile[pi].delay_erasing)
       /\ HealthOf(game.scene, 2) = HealthOf(last.update, 2) - 1

\* C2: when the projectile pass brings a non-player spaceship's health from
\* 1 to 0, the spaceship ends that tick with a delayed-erase marker, at the
\* sentinel position, and the game is paused.
C2_Depletion ==
  TickDone =>
    \A si \in 2..Len(last.update.spaceship) :
      (HealthOf(last.update, si) >= 1 /\ HealthOf(game.scene, si) <= 0)
         => /\ Has(game.scene.spaceship[si].delay_erasing)
            /\ game.scene.spaceship[si].transform.position = Sentinel
            /\ game.paused

\* the enemy went from health 1 to health 0 in the tick just taken
C2_Witness ==
  /\ TickDone
  /\ Len(game.scene.spaceship) >= 2
  /\ HealthOf(last.update, 2) = 1
  /\ HealthOf(game.scene, 2) = 0
  /\ ~last.pre.paused

\* the projectiles that went from live to marked in the projectile pass
NewlyMarked ==
  {pi \in 1..Len(last.update.projectile) :
      /\ ~Has(last.update.projectile[pi].delay_erasing)
      /\ Has(last.projectile.projectile[pi].delay_erasing)}

\* C3: the projectile pass reacts only to live projectiles: a projectile
\* that already carries a delayed-erase marker causes no further explosion,
\* sound or health decrement, so the explosions the pass spawns and the
\* health it takes are exactly those of the projectiles it marks.
C3_OnlyLiveProjectilesReact ==
  TickDone =>
    /\ Len(last.projectile.explosion)
          = Len(last.update.explosion) + Cardinality(NewlyMarked)
    /\ \A si \in 2..Len(last.update.spaceship) :
         HealthOf(last.update, si) - HealthOf(last.projectile, si)
            <= Cardinality(NewlyMarked)
    /\ \A k \in 1..Len(last.hits) : ~last.hits[k].marked

\* the erase rule as the lifecycle sweep is specified: marked, and not
\* waiting for a sound that is still playing
Erasable(e, playing) ==
  /\ Has(e.delay_erasing)
  /\ ~(Get(e.delay_erasing).sound /\ Has(e.sound) /\ Get(e.sound) \in playing)

Kept(list, playing) ==
  LET Stays(e) == ~Erasable(e, playing)
  IN  SelectSeq(list, Stays)

\* C4: the lifecycle sweep removes from every layer exactly the entities
\* that carry a delayed-erase marker and are not (sound-gated, with a sound
\* source attached, that source playing); the others stay, in their order.
C4_LifecycleSweep ==
  TickDone =>
    \A l \in LayerSet : last.erasing[l] = Kept(last.timers[l], last.playing)

\* a sweep that removed one marked entity and kept another whose sound plays
C4_Witness ==
  /\ TickDone
  /\ \E l \in LayerSet : Len(last.erasing[l]) < Len(last.timers[l])
  /\ \E l \in LayerSet : \E i \in 1..Len(last.erasing[l]) :
        /\ Has(last.erasing[l][i].delay_erasing)
        /\ Has(last.erasing[l][i].sound)
        /\ Get(last.erasing[l][i].sound) \in last.playing

PhaseOrder == <<"timers", "erasing", "cursor", "update", "projectile", "player">>

\* C5: game_update runs timer sweep, lifecycle sweep, cursor hit-test,
\* per-entity update, projectile pass, player pass, in this order; the
\* per-entity update and both collision passes work on the swept layers, so
\* no entity that was erasable at the sweep is in a layer they see.
C5_PhaseOrder ==
  TickDone =>
    /\ last.phases = PhaseOrder
    /\ \A l \in LayerSet :
         /\ last.cursor[l] = Kept(last.timers[l], last.playing)
         /\ Len(last.update[l]) = Len(last.cursor[l])
         /\ \A i \in 1..Len(last.update[l]) :
              last.update[l][i].tag = last.cursor[l][i].tag
         /\ l # "explosion" => /\ Len(last.projectile[l]) = Len(last.update[l])
                               /\ Len(last.player[l]) = Len(last.update[l])

\* an entity marked in an earlier tick was removed by the sweep of this
\* tick, and the projectile pass of this tick reacted to an overlap
C5_Witness ==
  /\ TickDone
  /\ n_ticks >= 2
  /\ \E l \in LayerSet : Len(last.erasing[l]) < Len(last.timers[l])
  /\ last.hits # << >>

\* C6: the per-entity update marks an entity with the off-screen-destroy
\* component in the first tick in which its world box no longer overlaps the
\* screen box, and not while the box still overlaps it.
C6_OffScreenDestroy ==
  TickDone =>
    \A l \in LayerSet : \A i \in 1..Len(last.cursor[l]) :
      LET before == last.cursor[l][i]
          after == last.update[l][i]
      IN  (before.offscreen_destroy /\ ~Has(before.delay_erasing))
             => (Has(after.delay_erasing)
                   <=> ~collision(WorldAabb(after), game.screen_aabb))

\* a projectile that was on screen after the previous tick left the screen
\* in this tick and was marked
C6_Witness ==
  /\ TickDone
  /\ \E i \in 1..Len(last.cursor.projectile) :
       /\ ~Has(last.cursor.projectile[i].delay_erasing)
       /\ collision(WorldAabb(last.cursor.projectile[i]), game.screen_aabb)
       /\ last.cursor.projectile[i].transform # last.cursor.projectile[i].prev_transform
       /\ Has(last.update.projectile[i].delay_erasing)
       /\ ~collision(WorldAabb(last.update.projectile[i]), game.screen_aabb)

\* C7: in the per-entity update an unmarked entity whose sprite animation is
\* expired after this tick's advance gets a sound-gated delayed-erase marker
\* and the sentinel position; an entity whose animation is not expired
\* (max_cycles = 0 never expires) is not marked or teleported by this step.
C7_AnimationExpiry ==
  TickDone =>
    \A l \in LayerSet : \A i \in 1..Len(last.cursor[l]) :
      LET before == last.cursor[l][i]
          after == last.update[l][i]
      IN  (Has(before.sprite_animation) /\ ~Has(before.delay_erasing)) =>
            LET anim == update_frame(Get(before.sprite_animation), timestep)
            IN  /\ after.sprite_animation = Some(anim)
                /\ Get(before.sprite_animation).max_cycles = 0 => ~expired(anim)
                /\ expired(anim)
                     => /\ after.delay_erasing = Some([sound |-> TRUE])
                        /\ after.transform.position = Sentinel
                /\ (~expired(anim) /\ ~before.offscreen_destroy)
                     => /\ ~Has(after.delay_erasing)
                        /\ after.transform.position # Sentinel
                        /\ after.transform.scale = before.transform.scale

\* an explosion reached the end of its animation in the tick just taken
C7_Witness ==
  /\ TickDone
  /\ \E i \in 1..Len(last.cursor.explosion) :
       /\ ~Has(last.cursor.explosion[i].delay_erasing)
       /\ ~expired(Get(last.cursor.explosion[i].sprite_animation))
       /\ expired(Get(last.update.explosion[i].sprite_animation))
       /\ Has(last.update.explosion[i].delay_erasing)

Crashing(sc) ==
  {ei \in 2..Len(sc.spaceship) :
      collision(WorldAabb(sc.spaceship[1]), WorldAabb(sc.spaceship[ei]))}

\* C9: the player pass runs only if the game is not paused when it is
\* reached.  Then each non-player spaceship overlapping the player appends
\* an explosion at the player's position, the player loses its render
\* handle and stays the first entry of the spaceship layer (nothing else of
\* the layer changes but the motion that the key releases of the pause
\* stop), and the game is paused at the end of the tick.  If the game is paused when the pass is
\* reached, the pass changes nothing.
C9_PlayerEnemyCollision ==
  TickDone =>
    LET P == last.projectile
        F == game.scene
        player == P.spaceship[1]
        n == Cardinality(Crashing(P))
    IN  IF last.paused_projectile
        THEN F = P /\ game.paused
        ELSE /\ Len(F.explosion) = Len(P.explosion) + n
             /\ \A j \in 1..n :
                  /\ F.explosion[Len(P.explosion) + j].transform.position
                        = player.transform.position
                  /\ F.explosion[Len(P.explosion) + j].sound # None
                  /\ Get(F.explosion[Len(P.explosion) + j].sound) \in al_playing
             /\ SubSeq(F.explosion, 1, Len(P.explosion)) = P.explosion
             /\ n = 0 => (F = P /\ ~game.paused)
             /\ n > 0 => /\ game.paused
                         /\ [F.spaceship EXCEPT ![1].motion = player.motion]
                               = [P.spaceship EXCEPT ![1].glo = FALSE]
                         /\ F.spaceship[1].tag = "player"

\* the player flew into the enemy in the tick just taken
C9_Witness ==
  /\ TickDone
  /\ ~last.paused_projectile
  /\ Crashing(last.projectile) # {}
  /\ ~game.scene.spaceship[1].glo
  /\ game.paused

\* the invocations of the handler of key k with a release action
ReleaseCalls(k) ==
  {i \in 1..Len(last.calls) : last.calls[i] = <<k, GLFW_RELEASE>>}

\* C10: game_pause in a running game sets every held key to released and
\* invokes the handler registered for it, if any, exactly once with
\* GLFW_RELEASE, and leaves the game paused with no key held; game_pause in
\* a paused game changes nothing and invokes no handler.
C10_Pause ==
  /\ (last.op = "focus_lost" /\ last.pre.paused)
        => (game = last.pre /\ last.calls = << >>)
  /\ (last.op = "game_update" /\ last.pre.paused)
        => /\ last.calls = << >>
           /\ game.key_states = last.pre.key_states
           /\ game.timed_actions[0] # None <=> last.pre.timed_actions[0] # None
  /\ (last.op \in {"focus_lost", "game_update"} /\ ~last.pre.paused /\ game.paused)
        => /\ \A k \in Keys : ~game.key_states[k]
           /\ \A k \in Keys :
                Cardinality(ReleaseCalls(k))
                   = IF last.pre.key_states[k] /\ k \in key_handlers THEN 1 ELSE 0
           /\ \A i \in 1..Len(last.calls) :
                last.calls[i][2] \in {GLFW_RELEASE, GLFW_REPEAT}
  /\ (last.op = "focus_lost") => game.paused

\* the window lost focus with the game running and two arrow keys held
C10_Witness ==
  /\ last.op = "focus_lost"
  /\ ~last.pre.paused
  /\ game.paused
  /\ Cardinality({k \in key_handlers : last.pre.key_states[k]}) >= 2
  /\ last.pre.key_states[GLFW_KEY_LEFT]

\* C11: game_resume on a paused game clears the paused flag and changes
\* nothing else (key states, timed actions, every entity, the player's cleared
\* render handle and the playing sounds stay as they were, no key handler is
\* invoked); on a running game it changes nothing at all.
C11_Resume ==
  last.op = "focus_gained" =>
    /\ game = [last.pre EXCEPT !.paused = FALSE]
    /\ ~last.pre.paused => game = last.pre
    /\ last.calls = << >>

\* the game is resumed after the player crashed into the enemy
C11_Witness ==
  /\ last.op = "focus_gained"
  /\ last.pre.paused
  /\ ~game.paused
  /\ ~game.scene.spaceship[1].glo

(***************************************************************************)
(* game_loop (main.cpp:734): the frame loop around game_update.  The       *)
(* float locals are integers in microseconds; alpha is in 1/1000.  now is  *)
(* what glfwGetTime returns, a clock that never runs backwards.  No input  *)
(* arrives in glfwPollEvents here: the callbacks touch none of the loop's  *)
(* locals.  lag0, steps and frames are history: the lag the catch-up loop  *)
(* started from, the steps it took in this iteration, the iterations.      *)
(***************************************************************************)
MaxFrames == 3

timestep_us == timestep * 1000

\* the refresh rates the primary monitor may report
RefreshRates == {60, 144}

\* wall-clock time between two iterations, in microseconds
LoopTimes == {0, 1, 4000, 9999, 10000, 16529, 25000}

game_loop_init(vsync, refresh_rate) ==
  [pc |-> "measure", vsync |-> vsync, refresh_rate |-> refresh_rate,
   last_time |-> 0, loop_time |-> 0, update_lag |-> 0, render_lag |-> 0,
   alpha |-> None, lag0 |-> 0, steps |-> 0, frames |-> 0]

\* variant of loop_measure: the lag left by the previous iteration is dropped
loop_measure_DropLag(l, now_time) ==
  LET loop_time == now_time - l.last_time
  IN  [l EXCEPT !.pc = "catch_up",
                !.loop_time = loop_time,
                !.last_time = now_time,
                !.update_lag = loop_time,
                !.alpha = None,
                !.lag0 = l.update_lag + loop_time,
                !.steps = 0]

\* now_time, loop_time, last_time, update_lag += loop_time
loop_measure(l, now_time) ==
  LET loop_time == now_time - l.last_time
  IN  [l EXCEPT !.pc = "catch_up",
                !.loop_time = loop_time,
                !.last_time = now_time,
                !.update_lag = @ + loop_time,
                !.alpha = None,
                !.lag0 = l.update_lag + loop_time,
                !.steps = 0]

\* variant of catching_up: the loop is left one comparison early
catching_up_Strict(l) == l.update_lag > timestep_us

\* the condition of the catch-up loop
catching_up(l) == l.update_lag >= timestep_us

\* the loop's bookkeeping of one simulation step
loop_step(l) == [l EXCEPT !.update_lag = @ - timestep_us, !.steps = @ + 1]

\* 1 / (refresh_rate + 0.5) seconds with vsync, else 0
render_interval(l) ==
  IF l.vsync THEN 2000000 \div (2 * l.refresh_rate + 1) ELSE 0

\* the rest of the iteration: render when the render lag allows it
loop_render(l) ==
  LET render_lag == l.render_lag + l.loop_time
  IN  IF render_lag >= render_interval(l)
      THEN [l EXCEPT !.pc = "measure",
                     !.alpha = Some((l.update_lag * 1000) \div timestep_us),
                     !.render_lag = 0,
                     !.frames = @ + 1]
      ELSE [l EXCEPT !.pc = "measure",
                     !.render_lag = render_lag,
                     !.frames = @ + 1]

LoopInit ==
  /\ game = game_init
  /\ al_playing = {}
  /\ glfw_keys = [k \in Keys |-> FALSE]
  /\ epochtime = 0
  /\ last = NoLog
  /\ n_ticks = 0
  /\ n_events = 0
  /\ \E vsync \in BOOLEAN, refresh_rate \in RefreshRates :
       loop = game_loop_init(vsync, refresh_rate)
  /\ sprite = None
  /\ cache = None
  /\ geo = None

\* the top of an iteration: the clock is read, the lag grows
LoopMeasure ==
  /\ loop.pc = "measure"
  /\ loop.frames < MaxFrames
  /\ \E d \in LoopTimes : loop' = loop_measure(loop, loop.last_time + d)
  /\ UNCHANGED <<game, al_playing, glfw_keys, epochtime, last, n_ticks, n_events,
                 sprite, cache, geo>>

\* one pass of the catch-up loop
LoopStep ==
  /\ loop.pc = "catch_up"
  /\ catching_up(loop)
  /\ \E s \in {game_update(St(game, al_playing, "game_update"), timestep, epochtime, << >>)} :
       /\ game' = s.game
       /\ al_playing' = s.al
       /\ last' = s.log
  /\ epochtime' = epochtime + timestep
  /\ n_ticks' = n_ticks + 1
  /\ loop' = loop_step(loop)
  /\ UNCHANGED <<glfw_keys, n_events, sprite, cache, geo>>

\* the catch-up loop is left; render, sleep, next iteration
LoopRender ==
  /\ loop.pc = "catch_up"
  /\ ~catching_up(loop)
  /\ loop' = loop_render(loop)
  /\ UNCHANGED <<game, al_playing, glfw_keys, epochtime, last, n_ticks, n_events,
                 sprite, cache, geo>>

LoopNext ==
  \/ LoopMeasure
  \/ LoopStep
  \/ LoopRender

LoopSpec == LoopInit /\ [][LoopNext]_vars

\* C12: for every non-negative wall-clock delta the catch-up loop takes
\* simulation steps until the update lag is below the timestep (as many as
\* whole timesteps fit into the lag), so the lag is never negative and at
\* every render alpha = update_lag / timestep is at least 0 and below 1.
C12_Alpha ==
  /\ loop.update_lag >= 0
  /\ loop.pc = "measure" =>
       /\ loop.update_lag < timestep_us
       /\ loop.steps = loop.lag0 \div timestep_us
       /\ loop.update_lag = loop.lag0 % timestep_us
  /\ Has(loop.alpha) =>
       /\ Get(loop.alpha) = (loop.update_lag * 1000) \div timestep_us
       /\ 0 <= Get(loop.alpha)
       /\ Get(loop.alpha) < 1000
  /\ epochtime = n_ticks * timestep

\* a render after an iteration that needed two or more simulation steps
C12_Witness ==
  /\ Has(loop.alpha)
  /\ Get(loop.alpha) > 0
  /\ loop.steps >= 2

(***************************************************************************)
(* TimedAction::update on its own: the timer sweep of game_update applied  *)
(* to a game whose slot 0 holds a timed action of duration D, with steps   *)
(* dt other than the loop's timestep.  The action is the spawn_projectile  *)
(* of key_space_handler, so every firing appends two projectiles.          *)
(***************************************************************************)
TimerDurations == {50, kFireDuration, 155}

\* the steps tried against a duration
TimerSteps(duration) == {timestep, duration \div 2, duration, 2 * duration}

TimerInit ==
  /\ \E duration \in TimerDurations :
       game = [game_init EXCEPT !.timed_actions[0] =
                 Some([tick_dt |-> 0, duration |-> duration,
                       action |-> "spawn_projectile"])]
  /\ al_playing = {}
  /\ glfw_keys = [k \in Keys |-> FALSE]
  /\ epochtime = 0
  /\ last = NoLog
  /\ n_ticks = 0
  /\ n_events = 0
  /\ loop = None
  /\ sprite = None
  /\ cache = None
  /\ geo = None

\* "Update TimedAction's" with a step of dt
TimerUpdate ==
  /\ n_ticks < MaxTicks
  /\ \E dt \in TimerSteps(Get(game.timed_actions[0]).duration) :
       /\ Done(TimerSweep(St(game, al_playing, "timed_action"), dt))
       /\ epochtime' = epochtime + dt
  /\ n_ticks' = n_ticks + 1
  /\ UNCHANGED <<glfw_keys, n_events>>

TimerNext == TimerUpdate

TimerSpec == TimerInit /\ [][TimerNext]_vars

\* the firings of the timed action in the step just taken
Fired == (Len(game'.scene.projectile) - Len(game.scene.projectile)) \div 2

\* C13: a timed action with duration D and accumulator 0 fires exactly once
\* on an update with dt = D and is left with accumulator 0; on one update
\* with dt = 2D it fires twice, once per whole multiple of D crossed, and
\* its accumulator ends below D.
C13_TimedAction ==
  [][ Get(game.timed_actions[0]).tick_dt = 0 =>
        LET D == Get(game.timed_actions[0]).duration
            dt == epochtime' - epochtime
            tick_dt == Get(game'.timed_actions[0]).tick_dt
        IN  /\ dt = D => (Fired = 1 /\ tick_dt = 0)
            /\ dt = 2 * D => (Fired = 2 /\ tick_dt < D) ]_vars

\* the fire action as key_space_handler registers it
FireAction ==
  Some([tick_dt |-> 0, duration |-> kFireDuration, action |-> "spawn_projectile"])

\* a SPACE release was delivered in the last operation, by GLFW or by game_pause
SpaceReleased ==
  \E k \in 1..Len(last.calls) : last.calls[k] = <<GLFW_KEY_SPACE, GLFW_RELEASE>>

\* what C14 says of a single state
C14_Slot ==
  /\ DOMAIN game.timed_actions = {0}
  /\ Len(game.timed_actions[0]) <= 1
  /\ Has(game.timed_actions[0]) =>
       key_space_handler(St(game, al_playing, "key_event"),
                         GLFW_KEY_SPACE, GLFW_PRESS).game.timed_actions[0] = FireAction
  /\ SpaceReleased => game.timed_actions[0] = None

\* C14: a slot holds at most one timed action, and registering the fire
\* action under the occupied slot 0 replaces the action there by one whose
\* accumulator is 0.  After a SPACE release, delivered by GLFW or by
\* game_pause, slot 0 is empty; while it is empty a tick spawns no projectile
\* from a timer, and only a SPACE press fills it again.
C14_FireTimer ==
  [][ /\ C14_Slot'
      /\ (game.timed_actions[0] = None /\ last'.op = "game_update") =>
           /\ last'.timers.projectile = game.scene.projectile
           /\ game'.timed_actions[0] = None
      /\ (game.timed_actions[0] = None /\ Has(game'.timed_actions[0])) =>
           /\ last'.op = "key_event"
           /\ last'.calls = << <<GLFW_KEY_SPACE, GLFW_PRESS>> >> ]_vars

\* a tick that started with projectiles in flight and slot 0 empty: SPACE
\* had been pressed and released
C14_Witness ==
  /\ TickDone
  /\ last.pre.timed_actions[0] = None
  /\ Len(last.pre.scene.projectile) > 0
  /\ ~last.pre.key_states[GLFW_KEY_SPACE]
  /\ ~last.pre.paused

(***************************************************************************)
(* A SpriteAnimation advanced on its own: update_frame called with steps   *)
(* of several sizes on animations of one to three frames.  sprite.start is *)
(* the animation as created, sprite.stepped the animation after the calls  *)
(* so far, sprite.prev the animation before the last call, sprite.dt that  *)
(* call's step, sprite.total the sum of all steps and sprite.largest the   *)
(* largest step.                                                           *)
(***************************************************************************)
MaxAdvances == 4

\* frame durations, in milliseconds
FrameSets == {<<40>>, <<40, 40>>, <<40, 60>>, <<30, 50, 20>>}

CycleLimits == {0, 1, 2}

AnimSteps == {0, 10, 20, 30, 40, 100}

SpriteAnimation(frames, max_cycles) ==
  [last_transit_dt |-> 0, curr_frame_idx |-> 0, frames |-> frames,
   curr_cycle_count |-> 0, max_cycles |-> max_cycles]

AnimInit ==
  /\ game = game_init
  /\ al_playing = {}
  /\ glfw_keys = [k \in Keys |-> FALSE]
  /\ epochtime = 0
  /\ last = NoLog
  /\ n_ticks = 0
  /\ n_events = 0
  /\ loop = None
  /\ \E frames \in FrameSets, max_cycles \in CycleLimits :
       sprite = [start |-> SpriteAnimation(frames, max_cycles),
                 stepped |-> SpriteAnimation(frames, max_cycles),
                 prev |-> SpriteAnimation(frames, max_cycles),
                 dt |-> 0, total |-> 0, largest |-> 0, calls |-> 0]
  /\ cache = None
  /\ geo = None

\* one call of update_frame
AnimAdvance ==
  /\ sprite.calls < MaxAdvances
  /\ \E dt \in AnimSteps :
       sprite' = [sprite EXCEPT !.stepped = update_frame(sprite.stepped, dt),
                                !.prev = sprite.stepped,
                                !.dt = dt,
                                !.total = @ + dt,
                                !.largest = MaxOf(@, dt),
                                !.calls = @ + 1]
  /\ UNCHANGED <<game, al_playing, glfw_keys, epochtime, last, n_ticks, n_events,
                 loop, cache, geo>>

AnimNext == AnimAdvance

AnimSpec == AnimInit /\ [][AnimNext]_vars

\* C15: advancing an animation by a total time T in several small steps ends
\* in the same frame index and the same completed-cycle count as advancing
\* the same initial animation by T in one call.
C15_StepsAgree ==
  LET once == update_frame(sprite.start, sprite.total)
  IN  /\ sprite.stepped.curr_frame_idx = once.curr_frame_idx
      /\ sprite.stepped.curr_cycle_count = once.curr_cycle_count

\* C16: one update_frame(dt) on an animation with N frames, index i and
\* counter c makes the counter c + dt; if that is at least the duration of
\* frame i, the duration is subtracted, the index becomes (i + 1) mod N and
\* the cycle count grows by one exactly when the index wraps to 0; otherwise
\* index and cycle count stay.  Frames and max_cycles never change, and a
\* call makes at most one transition.
C16_Advance ==
  sprite.calls > 0 =>
    LET a == sprite.prev
        b == sprite.stepped
        N == Len(a.frames)
        i == a.curr_frame_idx
        c == a.last_transit_dt + sprite.dt
    IN  /\ b.frames = a.frames
        /\ b.max_cycles = a.max_cycles
        /\ IF c >= a.frames[i + 1]
           THEN /\ b.last_transit_dt = c - a.frames[i + 1]
                /\ b.curr_frame_idx = (i + 1) % N
                /\ b.curr_cycle_count =
                     a.curr_cycle_count + (IF i + 1 = N THEN 1 ELSE 0)
           ELSE /\ b.last_transit_dt = c
                /\ b.curr_frame_idx = i
                /\ b.curr_cycle_count = a.curr_cycle_count

\* a call that wrapped a three-frame animation and carried a remainder
C16_Witness ==
  /\ sprite.calls > 0
  /\ Len(sprite.prev.frames) = 3
  /\ sprite.prev.curr_frame_idx = 2
  /\ sprite.stepped.curr_frame_idx = 0
  /\ sprite.stepped.curr_cycle_count = sprite.prev.curr_cycle_count + 1
  /\ sprite.stepped.last_transit_dt > 0

\* C17: expired() is true exactly when max_cycles > 0 and the completed
\* cycles have reached max_cycles; an animation with max_cycles = 0 is not
\* expired after any sequence of update_frame calls, and an animation that
\* is expired stays expired under every further call.
C17_Expired ==
  [][ /\ expired(sprite'.stepped) <=>
           (sprite'.stepped.max_cycles > 0
              /\ ~(sprite'.stepped.curr_cycle_count < sprite'.stepped.max_cycles))
      /\ sprite'.stepped.max_cycles = 0 => ~expired(sprite'.stepped)
      /\ expired(sprite.stepped) => expired(sprite'.stepped) ]_vars

\* an expired animation completed a further cycle and is still expired
C17_Witness ==
  /\ expired(sprite.prev)
  /\ sprite.stepped.curr_cycle_count > sprite.prev.curr_cycle_count
  /\ sprite.stepped.curr_cycle_count > sprite.stepped.max_cycles
  /\ expired(sprite.stepped)

(***************************************************************************)
(* The resource caches.  Two shapes exist in the repository:               *)
(*   "get_or_load" : Textures and Audios with a get_or_load method         *)
(*                   (res_manager.hpp:623, :873 and the two unnamed files) *)
(*   "ResManager"  : Textures and Audios of dear-engine, whose load calls  *)
(*                   the loader and then ResManager::load, with            *)
(*                   ResManager::get for the lookup                        *)
(* The texture and the audio cache of a shape differ only in the loader    *)
(* they call.  A handle (shared_ptr) is the number of the resource it      *)
(* points to; make_shared takes the next number.  m.map is the cache's     *)
(* map; invoked, loaded and failed are history: whether the last request   *)
(* called the loader, and per key how often the loader succeeded, failed.  *)
(***************************************************************************)
MaxCacheOps == 4

CacheKinds == {"get_or_load", "ResManager"}

ResKeys == {"Explosion.png", "funcoes.png"}

NoCache ==
  [map |-> [k \in ResKeys |-> None], next |-> 1, invoked |-> FALSE,
   loaded |-> [k \in ResKeys |-> 0], failed |-> [k \in ResKeys |-> 0]]

\* variant of get_or_load: a failed load leaves a null handle in the map
get_or_load_CacheFailure(m, key, ok) ==
  IF Has(m.map[key])
  THEN [m |-> [m EXCEPT !.invoked = FALSE], result |-> m.map[key]]
  ELSE IF ~ok
  THEN [m |-> [m EXCEPT !.invoked = TRUE, !.failed[key] = @ + 1,
                        !.map[key] = Some(0)],
        result |-> None]
  ELSE [m |-> [m EXCEPT !.invoked = TRUE, !.loaded[key] = @ + 1,
                        !.map[key] = Some(m.next), !.next = @ + 1],
        result |-> Some(m.next)]

\* Textures::get_or_load, Audios::get_or_load; ok is the loader's outcome
get_or_load(m, key, ok) ==
  IF Has(m.map[key])
  THEN [m |-> [m EXCEPT !.invoked = FALSE], result |-> m.map[key]]
  ELSE IF ~ok
  THEN [m |-> [m EXCEPT !.invoked = TRUE, !.failed[key] = @ + 1],
        result |-> None]
  ELSE [m |-> [m EXCEPT !.invoked = TRUE, !.loaded[key] = @ + 1,
                        !.map[key] = Some(m.next), !.next = @ + 1],
        result |-> Some(m.next)]

\* ResManager::load: map.insert_or_assign(key, element).first->second
ResManager_load(m, key, element) ==
  [m |-> [m EXCEPT !.map[key] = Some(element)], result |-> Some(element)]

\* ResManager::get
ResManager_get(m, key) ==
  [m |-> [m EXCEPT !.invoked = FALSE], result |-> m.map[key]]

\* Textures::load, Audios::load of dear-engine
load(m, key, ok) ==
  IF ~ok
  THEN [m |-> [m EXCEPT !.invoked = TRUE, !.failed[key] = @ + 1],
        result |-> None]
  ELSE ResManager_load([m EXCEPT !.invoked = TRUE, !.loaded[key] = @ + 1,
                                 !.next = @ + 1],
                       key, m.next)

\* the resources some shared_ptr still points to: the map's and the callers'
Alive(m, held) ==
  held \cup {Get(m.map[k]) : k \in {j \in ResKeys : Has(m.map[j])}}

\* the state after a cache call r whose result the caller keeps or drops;
\* a resource no shared_ptr points to any more is destroyed
Returned(c, op, key, r, keep) ==
  LET held == IF keep /\ Has(r.result) THEN c.held \cup {Get(r.result)} ELSE c.held
  IN  [c EXCEPT !.m = r.m,
                !.held = held,
                !.destroyed = (1..(r.m.next - 1)) \ Alive(r.m, held),
                !.ops = @ + 1,
                !.last = [op |-> op, key |-> key, result |-> r.result,
                          before |-> c.m.map, next |-> c.m.next]]

CacheInit ==
  /\ game = game_init
  /\ al_playing = {}
  /\ glfw_keys = [k \in Keys |-> FALSE]
  /\ epochtime = 0
  /\ last = NoLog
  /\ n_ticks = 0
  /\ n_events = 0
  /\ loop = None
  /\ sprite = None
  /\ geo = None
  /\ \E kind \in CacheKinds :
       cache = [kind |-> kind, m |-> NoCache, held |-> {}, destroyed |-> {},
                ops |-> 0,
                last |-> [op |-> "none", key |-> "", result |-> None,
                          before |-> NoCache.map, next |-> NoCache.next]]

Frozen ==
  UNCHANGED <<game, al_playing, glfw_keys, epochtime, last, n_ticks, n_events,
              loop, sprite, geo>>

\* a load-or-fetch request: get_or_load, or load on a ResManager cache
CacheRequest ==
  /\ cache.ops < MaxCacheOps
  /\ \E key \in ResKeys, ok \in BOOLEAN, keep \in BOOLEAN :
       cache' = Returned(cache, "request", key,
                         IF cache.kind = "get_or_load"
                         THEN get_or_load(cache.m, key, ok)
                         ELSE load(cache.m, key, ok),
                         keep)
  /\ Frozen

\* a lookup on a ResManager cache
CacheGet ==
  /\ cache.ops < MaxCacheOps
  /\ cache.kind = "ResManager"
  /\ \E key \in ResKeys, keep \in BOOLEAN :
       cache' = Returned(cache, "get", key, ResManager_get(cache.m, key), keep)
  /\ Frozen

\* a caller (an entity) lets go of a handle it held
CacheRelease ==
  /\ cache.ops < MaxCacheOps
  /\ \E h \in cache.held :
       cache' = [cache EXCEPT !.held = @ \ {h},
                              !.destroyed = (1..(cache.m.next - 1))
                                               \ Alive(cache.m, cache.held \ {h}),
                              !.ops = @ + 1,
                              !.last = [op |-> "release", key |-> "",
                                        result |-> None, before |-> cache.m.map,
                                        next |-> cache.m.next]]
  /\ Frozen

CacheNext ==
  \/ CacheRequest
  \/ CacheGet
  \/ CacheRelease

CacheSpec == CacheInit /\ [][CacheNext]_vars

\* C18: two load-or-fetch requests with the same key whose loader succeeds
\* return handles to the same resource and the loader is invoked once across
\* the two: a request for a key that is cached returns the cached handle
\* without calling the loader, for every cache of the repository.
C18_SameHandle ==
  /\ \A k \in ResKeys : cache.m.loaded[k] <= 1
  /\ (cache.last.op = "request" /\ Has(cache.last.before[cache.last.key])) =>
       /\ cache.last.result = cache.last.before[cache.last.key]
       /\ ~cache.m.invoked

\* C19: when the loader fails the request returns the not-found result and
\* leaves the cache as it was: no entry for the key, the other entries
\* untouched, no resource created; a request for a key that is not cached
\* always calls the loader, so a later request retries.
C19_LoaderFailure ==
  cache.last.op = "request" =>
    /\ ~Has(cache.last.before[cache.last.key]) => cache.m.invoked
    /\ (cache.m.invoked /\ ~Has(cache.last.result)) =>
         /\ cache.m.map = cache.last.before
         /\ cache.m.next = cache.last.next

\* a request succeeded for a key whose loader had failed before
C19_Witness ==
  /\ cache.last.op = "request"
  /\ cache.m.failed[cache.last.key] > 0
  /\ cache.m.invoked
  /\ Has(cache.last.result)
  /\ cache.m.map[cache.last.key] = cache.last.result

\* C20: the cache never evicts or invalidates: a cached key stays cached and
\* bound to the same handle under every later operation, and the resource
\* behind it is never destroyed, whether or not a caller still holds it.
C20_NeverEvicts ==
  [][ \A k \in ResKeys :
        Has(cache.m.map[k]) =>
          /\ cache'.m.map[k] = cache.m.map[k]
          /\ Get(cache.m.map[k]) \notin cache'.destroyed ]_vars

(***************************************************************************)
(* collision and Aabb::transform as functions of their arguments           *)
(* (core/aabb.hpp, core/aabb.cpp).  Every Aabb the program builds has min  *)
(* below max on both axes: the literals of game_init and                   *)
(* create_player_projectile, the cursor box (cursor_pos, cursor_pos +      *)
(* pixel_size) and the results of Aabb::transform under a matrix with a    *)
(* non-zero scale; the boxes drawn here are those.  A mat4 is kept as the  *)
(* six entries that reach x and y of matrix * vec4(p, 0, 1): column 0 is   *)
(* (xx, xy), column 1 is (yx, yy), column 3 is (tx, ty).  Coordinates and  *)
(* entries are integers in one unit.                                       *)
(***************************************************************************)
MaxCoord == 2

Coords == 0..MaxCoord

Boxes ==
  {box \in [min : Coords \X Coords, max : Coords \X Coords] :
     \A i \in 1..2 : box.min[i] < box.max[i]}

mat4(xx, xy, yx, yy, tx, ty) ==
  [xx |-> xx, xy |-> xy, yx |-> yx, yy |-> yy, tx |-> tx, ty |-> ty]

\* glm::mat4(1.0f)
Identity == mat4(1, 0, 0, 1, 0, 0)

\* identity, translation, scale, scale with the y axis flipped, quarter turn,
\* scale with the x axis flipped and a translation
Matrices ==
  {Identity, mat4(1, 0, 0, 1, 1, -1), mat4(2, 0, 0, 2, 0, 0),
   mat4(1, 0, 0, -1, 0, 0), mat4(0, 1, -1, 0, 0, 0),
   mat4(-2, 0, 0, 1, 1, 0)}

\* glm::vec2(matrix * glm::vec4(p, 0.0f, 1.0f))
mat4_apply(matrix, p) ==
  << matrix.xx * p[1] + matrix.yx * p[2] + matrix.tx,
     matrix.xy * p[1] + matrix.yy * p[2] + matrix.ty >>

\* variant of Aabb::transform: the mapped corners are stored as they come
Aabb_transform_NoSort(box, matrix) ==
  [min |-> mat4_apply(matrix, box.min), max |-> mat4_apply(matrix, box.max)]

\* variant of Aabb::transform: the larger corner is stored as min
Aabb_transform_Swapped(box, matrix) ==
  LET a == mat4_apply(matrix, box.min)
      b == mat4_apply(matrix, box.max)
  IN  [min |-> << MaxOf(a[1], b[1]), MaxOf(a[2], b[2]) >>,
       max |-> << MinOf(a[1], b[1]), MinOf(a[2], b[2]) >>]

\* Aabb::transform
Aabb_transform(box, matrix) ==
  LET a == mat4_apply(matrix, box.min)
      b == mat4_apply(matrix, box.max)
  IN  [min |-> << MinOf(a[1], b[1]), MinOf(a[2], b[2]) >>,
       max |-> << MaxOf(a[1], b[1]), MaxOf(a[2], b[2]) >>]

GeoInit ==
  /\ game = game_init
  /\ al_playing = {}
  /\ glfw_keys = [k \in Keys |-> FALSE]
  /\ epochtime = 0
  /\ last = NoLog
  /\ n_ticks = 0
  /\ n_events = 0
  /\ loop = None
  /\ sprite = None
  /\ cache = None
  /\ \E a \in Boxes, b \in Boxes, m \in Matrices :
       geo = [a |-> a, b |-> b, m |-> m, collided |-> FALSE, hit_ab |-> FALSE,
              hit_ba |-> FALSE, out |-> None]

GeoFrame ==
  UNCHANGED <<game, al_playing, glfw_keys, epochtime, last, n_ticks, n_events,
              loop, sprite, cache>>

\* collision is called on the two boxes, in both orders
GeoCollide ==
  /\ ~geo.collided
  /\ geo' = [geo EXCEPT !.collided = TRUE,
                        !.hit_ab = collision(geo.a, geo.b),
                        !.hit_ba = collision(geo.b, geo.a)]
  /\ GeoFrame

\* a.transform(m) is called
GeoTransform ==
  /\ ~Has(geo.out)
  /\ geo' = [geo EXCEPT !.out = Some(Aabb_transform(geo.a, geo.m))]
  /\ GeoFrame

GeoNext ==
  \/ GeoCollide
  \/ GeoTransform

GeoSpec == GeoInit /\ [][GeoNext]_vars

\* C21: the overlap test is symmetric: collision(a, b) = collision(b, a) for
\* all boxes a and b.
C21_Symmetric == geo.collided => (geo.hit_ab <=> geo.hit_ba)

\* two boxes that overlap, tested in both orders
C21_Witness ==
  /\ geo.collided
  /\ geo.hit_ab
  /\ geo.hit_ba
  /\ geo.a # geo.b

\* the boxes meet in a point of some axis: a corner of one lies on a corner
\* coordinate of the other
Touch(a, b) ==
  \E i \in 1..2 : a.max[i] = b.min[i] \/ a.min[i] = b.max[i]

\* C22: the overlap test is strict: collision(a, b) holds exactly when
\* a.min < b.max and a.max > b.min on both axes, so boxes that only touch
\* along an edge or at a corner do not overlap.
C22_Strict ==
  geo.collided =>
    /\ geo.hit_ab <=> \A i \in 1..2 : /\ geo.a.min[i] < geo.b.max[i]
                                      /\ geo.a.max[i] > geo.b.min[i]
    /\ Touch(geo.a, geo.b) => ~geo.hit_ab

\* two boxes that share the edge a.max.x = b.min.x and whose y ranges
\* overlap, tested
C22_Witness ==
  /\ geo.collided
  /\ geo.a.max[1] = geo.b.min[1]
  /\ geo.a.min[2] < geo.b.max[2] /\ geo.a.max[2] > geo.b.min[2]
  /\ ~geo.hit_ab

\* C23: Aabb::transform under the identity matrix returns a box equal to the
\* original box: the same min and the same max.
C23_Identity ==
  (Has(geo.out) /\ geo.m = Identity) => Get(geo.out) = geo.a

\* a box transformed by the identity matrix, and the same box moved by
\* another matrix
C23_Witness ==
  /\ Has(geo.out)
  /\ geo.m = Identity
  /\ Get(geo.out) = geo.a
  /\ \E m \in Matrices : Aabb_transform(geo.a, m) # geo.a

(***************************************************************************)
(* Invariants of the scene (Spec).                                         *)
(***************************************************************************)
\* the entities of a layer
Entities(layer) == {game.scene[layer][i] : i \in 1..Len(game.scene[layer])}

\* C24: every entity with an off-screen-destroy marker carries a bounding
\* box, and so does every entity of the spaceship and projectile layers: the
\* off-screen test and the two collision passes never read an absent box.
C24_BoundingBoxes ==
  /\ \A layer \in LayerSet : \A obj \in Entities(layer) :
       obj.offscreen_destroy => Has(obj.aabb)
  /\ \A obj \in Entities("spaceship") \cup Entities("projectile") :
       Has(obj.aabb)

\* a tick has run over a scene with an enemy, projectiles (marked for
\* off-screen destruction) and an explosion (no box, no marker)
C24_Witness ==
  /\ TickDone
  /\ Len(game.scene.spaceship) >= 2
  /\ \E obj \in Entities("projectile") : obj.offscreen_destroy
  /\ \E obj \in Entities("explosion") : ~Has(obj.aabb)

\* the entity is off the screen: its world box does not overlap the screen
\* box, or, when it has no box, its position is not inside the screen box
OffScreen(obj) ==
  IF Has(obj.aabb)
  THEN ~collision(WorldAabb(obj), game.screen_aabb)
  ELSE \E i \in 1..2 :
         \/ obj.transform.position[i] <= game.screen_aabb.min[i]
         \/ obj.transform.position[i] >= game.screen_aabb.max[i]

\* C25: every entity with a delayed-erase marker is logically dead: it is off
\* the screen (at the far position or beyond the screen edge) at the end of
\* the tick that marks it and in every later state until it is removed.
C25_DelayedEraseDead ==
  \A layer \in LayerSet : \A obj \in Entities(layer) :
    Has(obj.delay_erasing) => OffScreen(obj)

\* at the end of a tick a projectile that was teleported in an earlier tick
\* is still in its layer (its sound plays) and has moved on from the far
\* position, and an entity marked in this tick sits at the far position
C25_Witness ==
  /\ TickDone
  /\ \E obj \in Entities("projectile") :
       /\ Has(obj.delay_erasing)
       /\ obj.transform.position[2] > kSentinel
  /\ \E layer \in LayerSet : \E obj \in Entities(layer) :
       /\ Has(obj.delay_erasing)
       /\ obj.transform.position = <<kSentinel, kSentinel>>

\* C26: the spaceship layer is never empty and its first entry is the player
\* built by game_init: no sweep, collision reaction or input event removes
\* the player or puts another entity before it.
C26_PlayerFirst ==
  /\ Len(game.scene.spaceship) >= 1
  /\ game.scene.spaceship[1].tag = "player"
  /\ game.scene.spaceship[1].screen_bound
  /\ \A i \in 2..Len(game.scene.spaceship) : game.scene.spaceship[i].tag # "player"

\* a tick whose sweep removed the enemy: the player is alone in the layer
C26_Witness ==
  /\ TickDone
  /\ Len(game.scene.spaceship) = 1
  /\ game.scene.spaceship[1].tag = "player"
  /\ game.paused

\* x limited to the interval lo..hi
Clamped(x, lo, hi) == IF x < lo THEN lo ELSE IF x > hi THEN hi ELSE x

\* the player as the "Update all objects" loop of the last tick found it,
\* moved by the Motion system alone
Unbound == Motion(last.cursor.spaceship[1], timestep)

\* C27: at the end of every tick every screen-bound entity (the player) has
\* its position inside the screen box on both axes, whatever its velocity
\* and acceleration; each axis is clamped on its own, and the clamp leaves
\* velocity and acceleration as the Motion system set them.
C27_ScreenBound ==
  TickDone =>
    /\ \A layer \in LayerSet : \A obj \in Entities(layer) :
         obj.screen_bound =>
           \A i \in 1..2 : /\ game.screen_aabb.min[i] <= obj.transform.position[i]
                           /\ obj.transform.position[i] <= game.screen_aabb.max[i]
    /\ \A i \in 1..2 :
         last.update.spaceship[1].transform.position[i]
           = Clamped(Unbound.transform.position[i],
                     game.screen_aabb.min[i], game.screen_aabb.max[i])
    /\ last.update.spaceship[1].motion = Unbound.motion

\* a tick in which the player, flying right and up, was stopped at the right
\* edge while it moved freely along y
C27_Witness ==
  /\ TickDone
  /\ Unbound.transform.position[1] > game.screen_aabb.max[1]
  /\ game.scene.spaceship[1].transform.position[1] = game.screen_aabb.max[1]
  /\ game.scene.spaceship[1].motion.velocity[1] > 0
  /\ game.scene.spaceship[1].motion.velocity[2] > 0
  /\ game.scene.spaceship[1].transform.position[2] = Unbound.transform.position[2]
  /\ game.scene.spaceship[1].transform.position[2] < game.screen_aabb.max[2]

\* the handler calls made during the last operation
HandlerCalls == {last.calls[i] : i \in 1..Len(last.calls)}

\* C28: once a tick starts it runs to completion without interruption: no
\* key handler, focus callback or other input-driven state change executes
\* between the start and the end of a game_update call.
C28_NoHandlerInTick ==
  TickDone =>
    /\ last.calls = << >>
    /\ game.key_states = last.pre.key_states
    /\ game.cursor = last.pre.cursor

\* C28 as the code has it: no callback of an external event runs inside
\* game_update (the cursor and the pressed state of a key that was up do not
\* change in a tick); key handlers do run inside a tick, but only called by
\* game_pause when a collision of this tick pauses the game: with
\* GLFW_RELEASE for the keys held at the start of the tick, and re-dispatched
\* with GLFW_REPEAT for the opposite direction key that is still held; after
\* them no key is held.
C28_TickHandlers ==
  TickDone =>
    /\ game.cursor = last.pre.cursor
    /\ \A k \in Keys : game.key_states[k] => last.pre.key_states[k]
    /\ \A c \in HandlerCalls :
         /\ c[2] \in {GLFW_RELEASE, GLFW_REPEAT}
         /\ last.pre.key_states[c[1]]
    /\ last.calls # << >> =>
         /\ ~last.pre.paused
         /\ game.paused
         /\ \A k \in Keys : ~game.key_states[k]
         /\ Len(last.hits) + Len(last.crashes) > 0
    /\ (game.paused = last.pre.paused) => 
         /\ last.calls = << >>
         /\ game.key_states = last.pre.key_states

\* a tick in which a collision paused the game while a handled key was
\* held: its handler ran with GLFW_RELEASE inside the tick
C28_Witness ==
  /\ TickDone
  /\ \E c \in HandlerCalls : c[2] = GLFW_RELEASE
  /\ game.paused

(***************************************************************************)
(* A scene with a spaceship that has no Health component.  GameObject      *)
(* makes every component optional and game_update guards its other         *)
(* optional reads (aabb in the cursor pass, sprite_animation, update,      *)
(* sound), so such an entity is a legal member of the spaceship layer; the *)
(* game itself never builds one.  The projectile pass reads                *)
(* spaceship->health->value without a test.  On an empty std::optional     *)
(* that is undefined behaviour, and what a build does with it is a choice  *)
(* here: a checked build (_GLIBCXX_ASSERTIONS) aborts; an unchecked build  *)
(* reads and decrements whatever int lies in the optional's storage and    *)
(* leaves the optional empty.                                              *)
(***************************************************************************)
\* the ints the storage of an empty optional<Health> may hold
StorageValues == {-3, 0, 1, 2, 9}

\* a build: checked (the read aborts) or not (the read yields value)
UBOutcomes ==
  {[checked |-> TRUE, value |-> 0]}
    \cup {[checked |-> FALSE, value |-> v] : v \in StorageValues}

\* an enemy-sized entity without health and without update function, in the
\* path of the player's right-hand projectile
BareShip ==
  LET t == [position |-> <<6200, -52000>>, scale |-> <<80, -80>>, rotation |-> 0]
  IN  [create_enemy EXCEPT !.tag = "bare", !.transform = t, !.prev_transform = t,
                           !.update = None, !.health = None]

\* the spaceships of list from index i on, those without Health given health
RECURSIVE WithHealth(_, _, _)
WithHealth(list, i, health) ==
  IF i > Len(list) THEN list
  ELSE WithHealth(IF list[i].tag = "bare"
                  THEN [list EXCEPT ![i].health = health]
                  ELSE list,
                  i + 1, health)

\* the game as an unchecked build sees it: health of a spaceship that has
\* none reads as the int in its storage
Storage(g, value) ==
  [g EXCEPT !.scene.spaceship = WithHealth(@, 1, Some([value |-> value]))]

\* the optionals that were empty are still empty
Disengaged(s) ==
  [s EXCEPT !.game.scene.spaceship = WithHealth(@, 1, None)]

\* the tick r reacted to a projectile on a spaceship without health
BareHit(r) ==
  \E k \in 1..Len(r.log.hits) :
    r.game.scene.spaceship[r.log.hits[k].ship].tag = "bare"

\* the outcome of a tick r computed on the storage view, in a build whose
\* behaviour on the empty optional is ub; s is the state before the tick
Outcome(s, r, ub) ==
  IF ub.checked /\ BareHit(r)
  THEN [s EXCEPT !.log.op = "abort"]
  ELSE Disengaged(r)

BareInit ==
  /\ game = [game_init EXCEPT !.scene.spaceship = Append(@, BareShip)]
  /\ al_playing = {}
  /\ glfw_keys = [k \in Keys |-> FALSE]
  /\ epochtime = 0
  /\ last = NoLog
  /\ n_ticks = 0
  /\ n_events = 0
  /\ loop = None
  /\ sprite = None
  /\ cache = None
  /\ geo = None

\* game_update on the scene with the bare spaceship
BareTick ==
  /\ last.op # "abort"
  /\ n_ticks < MaxTicks
  /\ \E order \in Orders(HeldKeys(game)), ub \in UBOutcomes :
       \E r \in {game_update(St(Storage(game, ub.value),
                                al_playing, "game_update"),
                             timestep, epochtime, order)} :
         Done(Outcome(St(game, al_playing, "game_update"), r, ub))
  /\ epochtime' = epochtime + timestep
  /\ n_ticks' = n_ticks + 1
  /\ UNCHANGED <<glfw_keys, n_events>>

\* a key event while the process is alive
BareKeyEvent ==
  /\ last.op # "abort"
  /\ KeyEvent

BareNext ==
  \/ BareTick
  \/ BareKeyEvent

BareSpec == BareInit /\ [][BareNext]_vars

\* the hits of the last tick on a spaceship without health
BareHits ==
  {k \in 1..Len(last.hits) : game.scene.spaceship[last.hits[k].ship].tag = "bare"}

MaxSoundTicks == 30

MaxLiveTicks == MaxSoundTicks + 4

LiveInit ==
  /\ \E fired \in BOOLEAN :
       \E s \in {Snapshot([player |-> <<-300, 38500>>, health |-> kEnemyHealth,
                           ticks |-> 314, explosion |-> TRUE])} :
         \E s1 \in {IF fired THEN spawn_projectile(s) ELSE s} :
           /\ game = s1.game
           /\ al_playing = s1.al
  /\ epochtime = 314 * timestep
  /\ glfw_keys = [k \in Keys |-> FALSE]
  /\ last = NoLog
  /\ n_ticks = 0
  /\ n_events = 0
  /\ loop = None
  /\ sprite = None
  /\ cache = None
  /\ geo = None

\* one iteration of the catch-up loop
LiveTick ==
  /\ n_ticks < MaxLiveTicks
  /\ n_ticks < MaxSoundTicks \/ al_playing = {}
  /\ Done(game_update(St(game, al_playing, "game_update"), timestep, epochtime, << >>))
  /\ epochtime' = epochtime + timestep
  /\ n_ticks' = n_ticks + 1
  /\ UNCHANGED <<glfw_keys, n_events>>

LiveNext ==
  \/ LiveTick
  \/ SoundEnds

\* a step that counts a tick.  LiveTick is the only action that counts one
\* and game_update is defined on every state, so this is LiveTick with the
\* same enabling condition.
Ticking ==
  /\ n_ticks < MaxLiveTicks
  /\ n_ticks < MaxSoundTicks \/ al_playing = {}
  /\ n_ticks' = n_ticks + 1

\* the loop keeps running ticks, and a playing sound comes to its end
LiveSpec ==
  LiveInit /\ [][LiveNext]_vars /\ WF_n_ticks(Ticking) /\ WF_vars(SoundEnds)

\* the sound sources of the explosions in the layer: one per explosion
Exploding == {Get(obj.sound) : obj \in Entities("explosion")}

\* C30: every explosion is eventually removed: with ticks running and its
\* sound coming to an end, its animation expires, it is marked for delayed
\* erasure, and a later sweep removes it from the explosion layer (an
\* explosion leaves the layer only marked, with its animation expired and
\* its sound silent); without new collisions the explosion layer does not
\* grow.
C30_ExplosionRemoved ==
  /\ (game.scene.explosion # << >>) ~> (game.scene.explosion = << >>)
  /\ [][\A obj \in Entities("explosion") :
          Get(obj.sound) \notin Exploding' =>
            /\ Has(obj.delay_erasing)
            /\ expired(Get(obj.sprite_animation))
            /\ Get(obj.sound) \notin al_playing]_vars
  /\ [][(last'.hits = << >> /\ last'.crashes = << >>)
          => Len(game'.scene.explosion) <= Len(game.scene.explosion)]_vars

\* the sweep of a tick removed an explosion that a projectile hit of this
\* run had spawned
C30_Witness ==
  /\ TickDone
  /\ n_ticks > 26
  /\ \E i \in 1..Len(last.timers.explosion) :
       /\ last.timers.explosion[i].sound # Some(1)
       /\ Has(last.timers.explosion[i].delay_erasing)
       /\ last.timers.explosion[i].transform = Teleported
       /\ \A k \in 1..Len(last.erasing.explosion) :
            last.erasing.explosion[k].sound # last.timers.explosion[i].sound

\* the entities of a layer that the last tick teleported: present after its
\* lifecycle sweep and not at the far position then, at the far position at
\* its end (an entity keeps its index from the sweep to the end of the tick)
TeleportedNow(layer) ==
  {i \in 1..Len(last.erasing[layer]) :
     /\ last.erasing[layer][i].transform.position # Sentinel
     /\ game.scene[layer][i].transform = Teleported}

\* C31: an entity that a tick teleports to the far position (on animation
\* expiry, projectile hit or health depletion) ends the tick with
\* prev_transform equal to transform, so that rendering with any
\* interpolation factor draws it at the far position.
C31_TeleportNotInterpolated ==
  TickDone =>
    \A layer \in LayerSet : \A i \in TeleportedNow(layer) :
      game.scene[layer][i].prev_transform = game.scene[layer][i].transform

(***************************************************************************)
(* Aabb::transform under matrices without rotation (GeoSpec).              *)
(***************************************************************************)

\* the matrix scales and translates only
RotationFree(matrix) == matrix.xy = 0 /\ matrix.yx = 0

\* the four corners of a box
Corners(box) ==
  {<<x, y>> : x \in {box.min[1], box.max[1]}, y \in {box.min[2], box.max[2]}}

\* C32: Aabb::transform returns a well-formed box for every matrix without
\* rotation, negative scale on either axis included: min <= max on both axes,
\* and on each axis the two coordinates of the result are the coordinates of
\* the two mapped corners, the smaller one in min and the larger one in max,
\* so the result encloses the image of every corner of the box.
C32_WellFormed ==
  (Has(geo.out) /\ RotationFree(geo.m)) =>
    LET out == Get(geo.out)
        a == mat4_apply(geo.m, geo.a.min)
        b == mat4_apply(geo.m, geo.a.max)
    IN  /\ \A i \in 1..2 :
             /\ out.min[i] <= out.max[i]
             /\ {out.min[i], out.max[i]} = {a[i], b[i]}
        /\ \A c \in Corners(geo.a) : \A i \in 1..2 :
             /\ out.min[i] <= mat4_apply(geo.m, c)[i]
             /\ mat4_apply(geo.m, c)[i] <= out.max[i]

\* a box transformed by a matrix with a negative scale: the image of the min
\* corner lies above the image of the max corner on the flipped axis, and
\* the result is ordered
C32_Witness ==
  /\ Has(geo.out)
  /\ RotationFree(geo.m)
  /\ \E i \in 1..2 :
       /\ mat4_apply(geo.m, geo.a.min)[i] > mat4_apply(geo.m, geo.a.max)[i]
       /\ Get(geo.out).min[i] < Get(geo.out).max[i]
       /\ Get(geo.out).min[i] = mat4_apply(geo.m, geo.a.max)[i]

(***************************************************************************)
(* Visiting orders of a tick and of a frame (Spec).                        *)
(***************************************************************************)

\* the entities the "Update all objects" loop visits, in its order: every
\* list of all_lists(), every entity of the list from begin() to end()
RECURSIVE UpdateOrder(_, _, _)
UpdateOrder(scene, l, i) ==
  IF l > Len(Layers) THEN << >>
  ELSE IF i > Len(scene[Layers[l]]) THEN UpdateOrder(scene, l + 1, 1)
  ELSE << [layer |-> l, index |-> i] >> \o UpdateOrder(scene, l, i + 1)

\* variant of RenderList: the list is walked from begin() to end()
RECURSIVE RenderList_Forward(_, _, _)
RenderList_Forward(scene, l, i) ==
  LET k == Len(scene[Layers[l]]) + 1 - i
  IN  IF i < 1 \/ ~scene[Layers[l]][k].glo THEN << >>
      ELSE << [layer |-> l, index |-> k] >> \o RenderList_Forward(scene, l, i - 1)

\* the inner loop of "Render all objects": from rbegin() towards rend(),
\* ended by the first entity without a GL object
RECURSIVE RenderList(_, _, _)
RenderList(scene, l, i) ==
  IF i < 1 \/ ~scene[Layers[l]][i].glo THEN << >>
  ELSE << [layer |-> l, index |-> i] >> \o RenderList(scene, l, i - 1)

\* the entities game_render draws, in its order: every list of all_lists()
RECURSIVE game_render(_, _)
game_render(scene, l) ==
  IF l > Len(Layers) THEN << >>
  ELSE RenderList(scene, l, Len(scene[Layers[l]])) \o game_render(scene, l + 1)

RECURSIVE Reverse(_)
Reverse(seq) ==
  IF seq = << >> THEN << >> ELSE Reverse(Tail(seq)) \o << Head(seq) >>

\* the visits of a sequence that are among those of another
Among(seq, other) ==
  LET drawn == {other[k] : k \in 1..Len(other)}
      Test(v) == v \in drawn
  IN  SelectSeq(seq, Test)

\* C33 as stated: the update loop of a tick visits the entities in the
\* reverse of the order in which rendering draws them, the entity drawn last
\* (the most on top) first.
C33_UpdateReversesRender ==
  TickDone =>
    LET update == UpdateOrder(last.cursor, 1, 1)
        render == game_render(last.cursor, 1)
    IN  Among(update, render) = Reverse(render)

\* C33: the update loop of a tick and rendering both visit the layers in the
\* order background, spaceship, projectile, explosion, gui, text.  Inside a
\* layer the update loop visits every entity, first to last, and rendering
\* visits the entities it draws in the opposite order; the projectile pass
\* reacts to its hits spaceship by spaceship, first to last, and for one
\* spaceship projectile by projectile, first to last.
C33_VisitingOrder ==
  TickDone =>
    LET update == UpdateOrder(last.cursor, 1, 1)
        render == game_render(last.cursor, 1)
    IN  /\ \A p, q \in 1..Len(update) :
             p < q => \/ update[p].layer < update[q].layer
                      \/ /\ update[p].layer = update[q].layer
                         /\ update[p].index < update[q].index
        /\ \A l \in 1..Len(Layers) : \A i \in 1..Len(last.cursor[Layers[l]]) :
             \E p \in 1..Len(update) : update[p] = [layer |-> l, index |-> i]
        /\ \A p, q \in 1..Len(render) :
             p < q => \/ render[p].layer < render[q].layer
                      \/ /\ render[p].layer = render[q].layer
                         /\ render[p].index > render[q].index
        /\ \A p, q \in 1..Len(last.hits) :
             p < q => \/ last.hits[p].ship < last.hits[q].ship
                      \/ /\ last.hits[p].ship = last.hits[q].ship
                         /\ last.hits[p].proj < last.hits[q].proj

\* a tick over a scene with entities in three layers, two of them with more
\* than one entity drawn, in which the projectile pass reacted to two hits
C33_Witness ==
  /\ TickDone
  /\ Len(last.cursor.background) >= 1
  /\ Len(game_render(last.cursor, 1)) >= 5
  /\ Len(RenderList(last.cursor, 2, Len(last.cursor.spaceship))) >= 2
  /\ Len(RenderList(last.cursor, 3, Len(last.cursor.projectile))) >= 2
  /\ Len(last.hits) >= 2

(***************************************************************************)
(* Time accounting of the frame loop (LoopSpec).  The clock starts at 0,   *)
(* so last_time is the sum of the deltas measured so far.                  *)
(***************************************************************************)

MaxKeyEvents == 5
MaxKeyTicks == 2

ArrowKeys == {GLFW_KEY_LEFT, GLFW_KEY_RIGHT, GLFW_KEY_UP, GLFW_KEY_DOWN}

KeyInit ==
  /\ game = game_init
  /\ al_playing = {}
  /\ glfw_keys = [k \in Keys |-> FALSE]
  /\ epochtime = 0
  /\ last = NoLog
  /\ n_ticks = 0
  /\ n_events = 0
  /\ loop = None
  /\ sprite = None
  /\ cache = None
  /\ geo = None

\* GLFW reports an arrow key going down or up
ArrowEvent ==
  /\ n_events < MaxKeyEvents
  /\ \E key \in ArrowKeys, action \in {GLFW_PRESS, GLFW_RELEASE} :
       /\ glfw_keys[key] = (action = GLFW_RELEASE)
       /\ Done(key_event_callback(St(game, al_playing, "key_event"), key, action))
       /\ glfw_keys' = [glfw_keys EXCEPT ![key] = (action = GLFW_PRESS)]
  /\ n_events' = n_events + 1
  /\ UNCHANGED <<epochtime, n_ticks>>

\* the window loses focus: the game pauses
ArrowPause ==
  /\ n_events < MaxKeyEvents
  /\ \E order \in Orders(HeldKeys(game)) :
       Done(window_focus_callback(St(game, al_playing, "focus_lost"), FALSE, order))
  /\ n_events' = n_events + 1
  /\ UNCHANGED <<glfw_keys, epochtime, n_ticks>>

\* the window gains focus: the game resumes
ArrowResume ==
  /\ n_events < MaxKeyEvents
  /\ Done(window_focus_callback(St(game, al_playing, "focus_gained"), TRUE, << >>))
  /\ n_events' = n_events + 1
  /\ UNCHANGED <<glfw_keys, epochtime, n_ticks>>

\* one iteration of the catch-up loop
ArrowTick ==
  /\ n_ticks < MaxKeyTicks
  /\ \E order \in Orders(HeldKeys(game)) :
       Done(game_update(St(game, al_playing, "game_update"), timestep, epochtime, order))
  /\ epochtime' = epochtime + timestep
  /\ n_ticks' = n_ticks + 1
  /\ UNCHANGED <<glfw_keys, n_events>>

KeyNext ==
  \/ ArrowEvent
  \/ ArrowPause
  \/ ArrowResume
  \/ ArrowTick

KeySpec == KeyInit /\ [][KeyNext]_vars

\* the arrow keys of an axis, with the direction each one gives
AxisKeys(axis) ==
  IF axis = 1 THEN {[key |-> GLFW_KEY_LEFT, direction |-> -1],
                    [key |-> GLFW_KEY_RIGHT, direction |-> 1]}
  ELSE {[key |-> GLFW_KEY_DOWN, direction |-> -1],
        [key |-> GLFW_KEY_UP, direction |-> 1]}

\* C35: between input callbacks, on each axis: if neither arrow key of the
\* axis is recorded as held, the player's velocity and acceleration on the
\* axis are zero; if exactly one is recorded as held, the acceleration has
\* that key's direction.
C35_ArrowKeys ==
  \A axis \in 1..2 :
    LET held == {a \in AxisKeys(axis) : game.key_states[a.key]}
        motion == game.scene.spaceship[1].motion
    IN  /\ held = {} => /\ motion.velocity[axis] = 0
                        /\ motion.acceleration[axis] = 0
        /\ \A a \in held :
             held = {a} => motion.acceleration[axis] * a.direction > 0

\* the right key released while the left key is recorded as held, the left
\* key's movement restored; the up key alone held on the other axis
C35_Witness ==
  /\ last.op = "key_event"
  /\ last.calls = << <<GLFW_KEY_RIGHT, GLFW_RELEASE>>, <<GLFW_KEY_LEFT, GLFW_REPEAT>> >>
  /\ HeldKeys(game) = {GLFW_KEY_LEFT, GLFW_KEY_UP}
  /\ game.scene.spaceship[1].motion.acceleration[1] < 0
  /\ game.scene.spaceship[1].motion.acceleration[2] > 0

(***************************************************************************)
(* Health (Spec).                                                          *)
(***************************************************************************)

\* C36: the health of a spaceship is never negative: in every state every
\* health value is at least 0, and no hit of the projectile pass decrements
\* the health of a spaceship that has already reached 0 and been marked and
\* teleported.
C36_HealthNonNegative ==
  /\ \A si \in 1..Len(game.scene.spaceship) :
       Has(game.scene.spaceship[si].health)
          => Get(game.scene.spaceship[si].health).value >= 0
  /\ TickDone => \A k \in 1..Len(last.hits) : last.hits[k].health >= 1

(***************************************************************************)
(* The paused game (Spec).                                                 *)
(***************************************************************************)

\* C37: pausing does not stop the simulation.  A tick of a paused game runs
\* the timer sweep, the lifecycle sweep, the cursor hit-test, the per-entity
\* update and the projectile pass with the results they have for the same
\* game not paused (but for the player's motion, which only the key releases
\* of a pause touch); the player pass alone is suppressed.  A key event
\* delivered to a paused game reaches the key's handler, with the effect it
\* has on the game not paused.
C37_PausedStillSimulates ==
  /\ [][(game.paused /\ n_ticks' = n_ticks + 1) =>
          /\ last'.phases = PhaseOrder
          /\ \A order \in Orders(HeldKeys(game)) :
               \E run \in {game_update(St([game EXCEPT !.paused = FALSE],
                                          al_playing, "game_update"),
                                       timestep, epochtime, order)} :
                 /\ last'.timers = run.log.timers
                 /\ last'.erasing = run.log.erasing
                 /\ last'.cursor = run.log.cursor
                 /\ last'.update = run.log.update
                 /\ last'.hits = run.log.hits
                 /\ last'.projectile =
                       [run.log.projectile EXCEPT
                          !.spaceship[1].motion = last'.projectile.spaceship[1].motion]
                 /\ game'.hover = run.game.hover
          /\ last'.crashes = << >>
          /\ game'.scene = last'.projectile
          /\ game'.paused]_vars
  /\ [][(game.paused /\ last'.op = "key_event") =>
          \A key \in key_handlers : glfw_keys'[key] # glfw_keys[key] =>
            LET action == IF glfw_keys'[key] THEN GLFW_PRESS ELSE GLFW_RELEASE
            IN  /\ last'.calls # << >>
                /\ last'.calls[1] = <<key, action>>
                /\ \E run \in {key_event_callback(
                                 St([game EXCEPT !.paused = FALSE], al_playing,
                                    "key_event"), key, action)} :
                     /\ game' = [run.game EXCEPT !.paused = TRUE]
                     /\ last'.calls = run.log.calls]_vars

\* a tick of a paused game in which a projectile fired while paused hit the
\* enemy, and the enemy moved
C37_Witness ==
  /\ TickDone
  /\ last.pre.paused
  /\ last.pre.key_states[GLFW_KEY_SPACE]
  /\ last.hits # << >>
  /\ last.update.spaceship[2].transform # last.cursor.spaceship[2].transform
  /\ Len(game.scene.explosion) > Len(last.update.explosion)

(***************************************************************************)
(* The lifecycle sweep only removes (Spec).                                *)
(***************************************************************************)

\* the entities of `after`, in their order, are entities of `before` from
\* position i on, in their order, unchanged
RECURSIVE Remains(_, _, _)
Remains(after, before, i) ==
  IF after = << >> THEN TRUE
  ELSE IF i > Len(before) THEN FALSE
  ELSE IF Head(after) = before[i] THEN Remains(Tail(after), before, i + 1)
  ELSE Remains(after, before, i + 1)

\* C38: the lifecycle sweep only removes entities: the entities a layer holds
\* after the sweep are entities the same layer held before it, with all
\* their component values and in the same relative order; no entity is
\* added and none moves to another layer, and an entity without a
\* delayed-erase marker is never removed.
C38_SweepOnlyRemoves ==
  TickDone =>
    \A l \in LayerSet :
      /\ Remains(last.erasing[l], last.timers[l], 1)
      /\ Len(last.erasing[l]) <= Len(last.timers[l])
      /\ \A i \in 1..Len(last.timers[l]) :
           ~Has(last.timers[l][i].delay_erasing)
              => \E j \in 1..i : last.erasing[l][j] = last.timers[l][i]

\* a sweep that removed an entity of a layer and kept two entities that
\* followed it
C38_Witness ==
  /\ TickDone
  /\ \E l \in LayerSet :
       /\ Len(last.erasing[l]) >= 2
       /\ Len(last.erasing[l]) < Len(last.timers[l])
       /\ last.erasing[l][1] # last.timers[l][1]

(***************************************************************************)
(* Bounds of a SpriteAnimation under small steps (AnimSpec).               *)
(***************************************************************************)

\* the smallest frame duration of an animation
RECURSIVE SmallestDuration(_)
SmallestDuration(frames) ==
  IF Len(frames) = 1 THEN frames[1]
  ELSE MinOf(frames[1], SmallestDuration(Tail(frames)))

\* C39: an animation with N >= 1 frames of positive duration that starts at
\* frame 0 with counter 0 and is advanced by steps dt with 0 <= dt <= the
\* smallest frame duration has, after every call, a frame index in 0..N-1
\* and a counter that is at least 0 and below the duration of the current
\* frame, and its cycle count is never less than before the call.
C39_AnimationBounds ==
  sprite.largest <= SmallestDuration(sprite.start.frames) =>
    LET a == sprite.stepped
    IN  /\ a.curr_frame_idx \in 0..(Len(a.frames) - 1)
        /\ a.last_transit_dt >= 0
        /\ a.last_transit_dt < a.frames[a.curr_frame_idx + 1]
        /\ a.curr_cycle_count >= sprite.prev.curr_cycle_count

\* steps no larger than the shortest frame took a three-frame animation from
\* its longest frame to its shortest, the last step as large as that frame
C39_Witness ==
  /\ sprite.largest <= SmallestDuration(sprite.start.frames)
  /\ sprite.dt = SmallestDuration(sprite.start.frames)
  /\ Len(sprite.start.frames) = 3
  /\ sprite.prev.curr_frame_idx = 1
  /\ sprite.stepped.curr_frame_idx = 2
  /\ sprite.stepped.frames[3] < sprite.stepped.frames[2]

=============================================================================
